---- MODULE Spec2Model ----
(***************************************************************************)
(* Model of the curacao wireless bridging fabric:                          *)
(*   - the bridge's pipe table      (poststation-bridge/src/table.rs)      *)
(*   - the bridge's packet dispatch (poststation-bridge/src/bridge.rs)     *)
(*   - the fragment reassembler     (bridge-icd/src/lib.rs, FragBuf)       *)
(***************************************************************************)
EXTENDS Integers, Sequences, FiniteSets, TLC

(***************************************************************************)
(* Program constants                                                       *)
(***************************************************************************)
\* addr_allocs: [Option<Element>; 7]
NumPipes == 7
\* const TIMEOUT: Duration = Duration::from_secs(30)
TIMEOUT == 30
\* Ticker::every(Duration::from_secs(5))
TickSecs == 5
\* FragBuf.data: [u8; 1024]
BufSize == 1024
\* msg.chunks(128)
ChunkSize == 128

(***************************************************************************)
(* Bounds of the model                                                     *)
(***************************************************************************)
\* serials are opaque 8-byte values, only ever compared for equality;
\* they are modelled as 0 .. MaxSerial-1
MaxSerial == 3
\* the clock of the table harness runs 0 .. MaxTime; the durations it hands
\* to cull_older_than are 0 .. MaxTime + 1
MaxTime == 1
\* the bridge's clock, while nodes attach, runs over MaxTicks periods of the
\* table ticker
MaxTicks == 2

\* the frames the fragment harness sends are 1 .. MaxFrameLen bytes long, cut
\* into pieces in every possible way
MaxFrameLen == 3
\* the sender of the fragment harness sends at most MaxFrames frames
MaxFrames == 2
\* the bridge's clock, while slots age, runs over 0 .. MaxCullSecs seconds
MaxCullSecs == 36
\* the bridge's clock, while a node is culled and comes back, is followed
\* until it has reached MaxReadmitSecs seconds; from then on every Instant is
\* held relative to the clock
MaxReadmitSecs == 30

Serials == 0 .. (MaxSerial - 1)
\* pipe arguments handed to the table: 0, the seven pipes, and two values
\* that are out of range for the array
PipeArgs == (0 .. (NumPipes + 1)) \cup {255}
Slots == 0 .. (NumPipes - 1)
\* the serials of the nodes that are followed when several share the air
RadioNodes == {0, 1}
\* the tasks of a node that send through clones of one EsbTx: the RPC
\* server's dispatcher, a task spawned for an endpoint or a topic, and the
\* keepalive task
SendTasks == {"rpc", "spawned", "keepalive"}

(***************************************************************************)
(* Option<T>                                                               *)
(***************************************************************************)
None == [is_some |-> FALSE]
Some(v) == [is_some |-> TRUE, val |-> v]

VARIABLES
    now,          \* embassy_time::Instant::now(), in seconds
    addr_allocs,  \* Table.addr_allocs, indexed 0..6 (pipe = index + 1)
    next_tick,    \* when the bridge's table_ticker expires next
    fresh,        \* number of distinct serials handed to allocate_pipe so far
    fb_data,      \* FragBuf.data, held as its prefix up to the last byte ever
                  \* written; the bytes behind it are the zeros of FragBuf::new
    fb_status,    \* FragBuf.status
    tx_count,     \* number of frames the sender has started
    tx_pieces,    \* the fragments of the frame the sender is emitting; under a
                  \* free caller, the ones the reassembler took for its frame
    tx_next,      \* index (= part) of the next fragment the sender emits
    tx_got,       \* parts of this frame that were handed to handle_frag
    run_start,    \* FragBuf.status when part 0 of this frame was handed over
    frag_bufs,    \* Bridge.frag_bufs, indexed 0..6 (pipe = index + 1)
    h_req,        \* the host request proxy_handler is working on, and where it is
    b2n_queue,    \* packets the bridge has committed to its radio queue
    esb_rx,       \* EsbRx { serial, pipe } of the node, once it has attached
    panicked,     \* the firmware has panicked
    lost,         \* packets of the host-to-node path lost so far
    n_pc,         \* where the node firmware is: in get_pipe or in steady state
    pids,         \* get_pipe: the next pid of the cycle 0, 1, 2, 3
    n_pid,        \* EsbTxInner.pid
    n_now,        \* the node's clock, in ms
    last_ka,      \* keepalive task: last_ka, in ms
    n_send,       \* the frame EsbTx::send is sending, and the chunk it is at
    tout,         \* table_tick: the snapshot taken and not yet published
    n2b_queue,    \* packets of the node the bridge's radio holds for Bridge::run
    locks,        \* who holds the table mutex and the radio-sender mutex
    b_task,       \* where the bridge's radio_prx task is, and what it works on
    nodes,        \* of each of several nodes: the pipe it has adopted, if it
                  \* has, and the part of its frame it sends next
    n_tx,         \* the node's sending side: where each task that sends is,
                  \* who holds the mutex of EsbTxInner, the packets in the
                  \* radio's TX queue, the packets committed by the last step
                  \* and the last Proxy packet committed
    last          \* the call (or packet) handled by the last step and its result

tableVars == <<now, addr_allocs, next_tick, fresh>>
fragVars == <<fb_data, fb_status, tx_count, tx_pieces, tx_next, tx_got, run_start>>
bridgeVars == <<frag_bufs>>
hostVars == <<h_req, b2n_queue, esb_rx, panicked, lost>>
nodeVars == <<n_pc, pids, n_pid, n_now, last_ka, n_send>>
taskVars == <<locks, b_task, nodes, n_tx>>
runVars == <<tout, n2b_queue, taskVars>>
vars == <<now, addr_allocs, next_tick, fresh,
          fb_data, fb_status, tx_count, tx_pieces, tx_next, tx_got, run_start,
          frag_bufs, h_req, b2n_queue, esb_rx, panicked, lost,
          n_pc, pids, n_pid, n_now, last_ka, n_send, tout, n2b_queue,
          locks, b_task, nodes, n_tx, last>>

(***************************************************************************)
(* Table (table.rs)                                                        *)
(***************************************************************************)
Element(serial, last_msg) == [serial |-> serial, last_msg |-> last_msg]

\* Table::new
TableNew == [i \in Slots |-> None]

\* PipeAlloc::New / PipeAlloc::Existing
PipeAllocNew(p) == [kind |-> "New", pipe |-> p]
PipeAllocExisting(p) == [kind |-> "Existing", pipe |-> p]

\* the scan loop of allocate_pipe: returns Some(Existing) at the first slot
\* holding the serial, otherwise reports the first empty index seen
RECURSIVE AllocScan(_, _, _, _)
AllocScan(tbl, serial, i, first_empty) ==
    IF i = NumPipes
    THEN [found |-> None, first_empty |-> first_empty]
    ELSE IF tbl[i].is_some
         THEN IF tbl[i].val.serial = serial
              THEN [found |-> Some(i + 1), first_empty |-> first_empty]
              ELSE AllocScan(tbl, serial, i + 1, first_empty)
         ELSE IF ~first_empty.is_some
              THEN AllocScan(tbl, serial, i + 1, Some(i))
              ELSE AllocScan(tbl, serial, i + 1, first_empty)

\* allocate_pipe without the test for a slot that holds the serial already
allocate_pipe_no_match(tbl, serial, t) ==
    LET scan == AllocScan(tbl, serial, 0, None) IN
    IF scan.first_empty.is_some
    THEN [table |-> [tbl EXCEPT ![scan.first_empty.val] = Some(Element(serial, t))],
          ret |-> Some(PipeAllocNew(scan.first_empty.val + 1))]
    ELSE IF scan.found.is_some
         THEN [table |-> tbl, ret |-> Some(PipeAllocExisting(scan.found.val))]
         ELSE [table |-> tbl, ret |-> None]

\* allocate_pipe placing a new serial in the last empty slot instead of the first
allocate_pipe_last_empty(tbl, serial, t) ==
    LET scan == AllocScan(tbl, serial, 0, None)
        empty == {i \in Slots : ~tbl[i].is_some}
        e == CHOOSE i \in empty : \A j \in empty : j <= i
    IN
    IF scan.found.is_some
    THEN [table |-> tbl, ret |-> Some(PipeAllocExisting(scan.found.val))]
    ELSE IF empty # {}
         THEN [table |-> [tbl EXCEPT ![e] = Some(Element(serial, t))],
               ret |-> Some(PipeAllocNew(e + 1))]
         ELSE [table |-> tbl, ret |-> None]

\* allocate_pipe refreshing last_msg of the slot that holds the serial already
allocate_pipe_refresh(tbl, serial, t) ==
    LET scan == AllocScan(tbl, serial, 0, None) IN
    IF scan.found.is_some
    THEN [table |-> [tbl EXCEPT ![scan.found.val - 1] = Some(Element(serial, t))],
          ret |-> Some(PipeAllocExisting(scan.found.val))]
    ELSE IF scan.first_empty.is_some
         THEN [table |-> [tbl EXCEPT ![scan.first_empty.val] = Some(Element(serial, t))],
               ret |-> Some(PipeAllocNew(scan.first_empty.val + 1))]
         ELSE [table |-> tbl, ret |-> None]

\* Table::allocate_pipe: the table afterwards and the returned Option<PipeAlloc>
allocate_pipe(tbl, serial, t) ==
    LET scan == AllocScan(tbl, serial, 0, None) IN
    IF scan.found.is_some
    THEN [table |-> tbl, ret |-> Some(PipeAllocExisting(scan.found.val))]
    ELSE IF scan.first_empty.is_some
         THEN [table |-> [tbl EXCEPT ![scan.first_empty.val] = Some(Element(serial, t))],
               ret |-> Some(PipeAllocNew(scan.first_empty.val + 1))]
         ELSE [table |-> tbl, ret |-> None]

\* Table::pipe_for_serial
RECURSIVE PipeScan(_, _, _)
PipeScan(tbl, serial, i) ==
    IF i = NumPipes THEN None
    ELSE IF tbl[i].is_some /\ tbl[i].val.serial = serial
         THEN Some(i + 1)
         ELSE PipeScan(tbl, serial, i + 1)

\* a lookup that takes the first occupied slot, whoever holds it
pipe_for_serial_any_holder(tbl, serial) ==
    IF \E i \in Slots : tbl[i].is_some
    THEN Some((CHOOSE i \in Slots : tbl[i].is_some /\ \A j \in Slots : tbl[j].is_some => i <= j) + 1)
    ELSE None

pipe_for_serial(tbl, serial) == PipeScan(tbl, serial, 0)

\* Table::pipe_valid
pipe_valid(tbl, pipe) ==
    IF pipe = 0 THEN FALSE
    ELSE (pipe - 1) \in Slots /\ tbl[pipe - 1].is_some

\* Table::serial_for_pipe
serial_for_pipe(tbl, pipe) ==
    IF pipe = 0 THEN None
    ELSE IF (pipe - 1) \notin Slots THEN None
    ELSE IF ~tbl[pipe - 1].is_some THEN None
    ELSE Some(tbl[pipe - 1].val.serial)

\* update_time without the comparison of the serial
update_time_any_serial(tbl, pipe, serial, t) ==
    IF pipe = 0 THEN [table |-> tbl, ret |-> FALSE]
    ELSE IF (pipe - 1) \notin Slots THEN [table |-> tbl, ret |-> FALSE]
    ELSE IF ~tbl[pipe - 1].is_some THEN [table |-> tbl, ret |-> FALSE]
    ELSE [table |-> [tbl EXCEPT ![pipe - 1] = Some(Element(tbl[pipe - 1].val.serial, t))],
          ret |-> TRUE]

\* an update_time that reports the match and leaves last_msg as it was
update_time_no_write(tbl, pipe, serial, t) ==
    IF pipe = 0 THEN [table |-> tbl, ret |-> FALSE]
    ELSE IF (pipe - 1) \notin Slots THEN [table |-> tbl, ret |-> FALSE]
    ELSE IF ~tbl[pipe - 1].is_some THEN [table |-> tbl, ret |-> FALSE]
    ELSE [table |-> tbl, ret |-> tbl[pipe - 1].val.serial = serial]

\* Table::update_time: the table afterwards and the returned bool
update_time(tbl, pipe, serial, t) ==
    IF pipe = 0 THEN [table |-> tbl, ret |-> FALSE]
    ELSE IF (pipe - 1) \notin Slots THEN [table |-> tbl, ret |-> FALSE]
    ELSE IF ~tbl[pipe - 1].is_some THEN [table |-> tbl, ret |-> FALSE]
    ELSE IF tbl[pipe - 1].val.serial = serial
         THEN [table |-> [tbl EXCEPT ![pipe - 1] = Some(Element(serial, t))],
               ret |-> TRUE]
         ELSE [table |-> tbl, ret |-> FALSE]

\* Instant::checked_duration_since
checked_duration_since(t, earlier) ==
    IF earlier <= t THEN Some(t - earlier) ELSE None

\* the cull test with d > dur in place of d >= dur
CullTest_strict(t, last_msg, dur) ==
    LET cds == checked_duration_since(t, last_msg) IN
    (cds.is_some /\ cds.val > dur) \/ ~cds.is_some

\* the test of cull_older_than on one occupied slot
CullTest(t, last_msg, dur) ==
    LET cds == checked_duration_since(t, last_msg) IN
    (cds.is_some /\ cds.val >= dur) \/ ~cds.is_some

\* Table::cull_older_than
cull_older_than(tbl, dur, t) ==
    [i \in Slots |->
        IF tbl[i].is_some /\ CullTest(t, tbl[i].val.last_msg, dur)
        THEN None
        ELSE tbl[i]]

\* Table::extract_table: out.clear(), then push the serial of every occupied
\* slot in index order
RECURSIVE ExtractFrom(_, _, _)
ExtractFrom(tbl, i, acc) ==
    IF i = NumPipes THEN acc
    ELSE IF tbl[i].is_some
         THEN ExtractFrom(tbl, i + 1,
                  IF Len(acc) < NumPipes THEN Append(acc, tbl[i].val.serial) ELSE acc)
         ELSE ExtractFrom(tbl, i + 1, acc)

\* extract_table without out.clear()
extract_table_no_clear(tbl, o) == ExtractFrom(tbl, 0, o)

extract_table(tbl, o) == ExtractFrom(tbl, 0, SubSeq(o, 1, 0))


(***************************************************************************)
(* Bridge (bridge.rs)                                                      *)
(***************************************************************************)
\* Node2Bridge
N2B_Initialize(serial) == [type |-> "Initialize", serial |-> serial]
N2B_Keepalive(serial) == [type |-> "Keepalive", serial |-> serial]
N2B_Proxy(part, ttl_parts, remain) ==
    [type |-> "Proxy", part |-> part, ttl_parts |-> ttl_parts, remain |-> remain]
N2B_Nop == [type |-> "Nop"]

\* Bridge2Node
B2N_InitializeAck(serial, use_pipe) ==
    [type |-> "InitializeAck", serial |-> serial, use_pipe |-> use_pipe]
B2N_Keepalive(serial) == [type |-> "Keepalive", serial |-> serial]
B2N_Reset == [type |-> "Reset"]

\* the radio's 2-bit packet ids
Pids == 0 .. 3

\* init_serial answering a full table with no reply at all
init_serial_silent(tbl, serial, t) ==
    LET a == allocate_pipe(tbl, serial, t) IN
    [table |-> a.table,
     reply |-> IF a.ret.is_some
               THEN Some(B2N_InitializeAck(serial, a.ret.val.pipe))
               ELSE None]

\* init_serial that allocates and then replies Reset
init_serial_reset_reply(tbl, serial, t) ==
    LET a == allocate_pipe(tbl, serial, t) IN
    [table |-> a.table, reply |-> Some(B2N_Reset)]

\* Bridge::init_serial: the table afterwards and the reply
init_serial(tbl, serial, t) ==
    LET a == allocate_pipe(tbl, serial, t) IN
    [table |-> a.table,
     reply |-> IF ~a.ret.is_some THEN Some(B2N_Reset)
               ELSE IF a.ret.val.kind = "New"
                    THEN Some(B2N_InitializeAck(serial, a.ret.val.pipe))
                    ELSE Some(B2N_InitializeAck(serial, a.ret.val.pipe))]

\* the reply going out with packet id 0 whatever the packet's was
ReplyFrame_pid_zero(pipe, pid, reply) ==
    IF reply.is_some
    THEN Some([pipe |-> pipe, pid |-> 0, msg |-> reply.val])
    ELSE None

\* Bridge::handle, the tail: a reply goes out on the pipe the packet came in
\* on, with the packet's pid (EsbHeader::new(252, grant.pid(), grant.pipe(), true))
ReplyFrame(pipe, pid, reply) ==
    IF reply.is_some
    THEN Some([pipe |-> pipe, pid |-> pid, msg |-> reply.val])
    ELSE None

\* table_tick without the cull
table_tick_no_cull(tbl, t) ==
    [table |-> tbl, tout |-> extract_table(tbl, << >>)]

\* table_tick taking the snapshot before the cull
table_tick_snapshot_first(tbl, t) ==
    [table |-> cull_older_than(tbl, TIMEOUT, t), tout |-> extract_table(tbl, << >>)]

\* Bridge::table_tick: cull and snapshot under one lock of the table; the
\* snapshot is what is published on BridgeTableTopic
table_tick(tbl, t) ==
    LET culled == cull_older_than(tbl, TIMEOUT, t) IN
    [table |-> culled, tout |-> extract_table(culled, << >>)]

(***************************************************************************)
(* FragBuf (bridge-icd/src/lib.rs)                                         *)
(***************************************************************************)
\* FragStatus
Idle == [tag |-> "Idle"]
Active(position, rx_frags, ttl_frags) ==
    [tag |-> "Active", position |-> position,
     rx_frags |-> rx_frags, ttl_frags |-> ttl_frags]

\* run_start while part 0 of the current frame has not been handed over
NoStatus == [tag |-> "none"]

\* FragBuf::new: data = [0u8; 1024]
FragDataNew == << >>

\* self.data[at - 1]
ByteAt(buf, at) == IF at <= Len(buf) THEN buf[at] ELSE 0

\* &self.data[..end]
DataPrefix(buf, end) == [i \in 1 .. end |-> ByteAt(buf, i)]

\* self.data[position .. position + data.len()].copy_from_slice(data)
CopyAt(buf, position, data) ==
    LET end == position + Len(data)
        n == IF Len(buf) > end THEN Len(buf) ELSE end
    IN [i \in 1 .. n |->
           IF i > position /\ i <= end THEN data[i - position] ELSE ByteAt(buf, i)]

\* u8 addition
U8Add(a, b) == (a + b) % 256

\* handle_frag accepting a fragment whose ttl_parts differs from the frame's
handle_frag_any_total(buf, status, part, ttl_parts, data) ==
    IF ttl_parts < 1
    THEN [data |-> buf, status |-> Idle, ret |-> None]
    ELSE IF status.tag = "Idle" /\ part = 0
    THEN [data |-> CopyAt(buf, 0, data),
          status |-> Active(Len(data), 1, ttl_parts),
          ret |-> None]
    ELSE IF status.tag = "Idle"
    THEN [data |-> buf, status |-> status, ret |-> None]
    ELSE IF status.rx_frags # part
    THEN IF part = 0
         THEN [data |-> CopyAt(buf, 0, data),
               status |-> Active(Len(data), 1, ttl_parts),
               ret |-> None]
         ELSE [data |-> buf, status |-> Idle, ret |-> None]
    ELSE LET end == status.position + Len(data) IN
         IF end > BufSize
         THEN [data |-> buf, status |-> Idle, ret |-> None]
         ELSE IF U8Add(part, 1) = ttl_parts
         THEN [data |-> CopyAt(buf, status.position, data),
               status |-> Idle,
               ret |-> Some(DataPrefix(CopyAt(buf, status.position, data), end))]
         ELSE [data |-> CopyAt(buf, status.position, data),
               status |-> Active(end, U8Add(part, 1), ttl_parts),
               ret |-> None]

\* handle_frag appending a restarting first fragment behind the old bytes
handle_frag_keep_old(buf, status, part, ttl_parts, data) ==
    IF ttl_parts < 1
    THEN [data |-> buf, status |-> Idle, ret |-> None]
    ELSE IF status.tag = "Idle" /\ part = 0
    THEN [data |-> CopyAt(buf, 0, data),
          status |-> Active(Len(data), 1, ttl_parts),
          ret |-> None]
    ELSE IF status.tag = "Idle"
    THEN [data |-> buf, status |-> status, ret |-> None]
    ELSE IF status.rx_frags # part \/ status.ttl_frags # ttl_parts
    THEN IF part = 0
         THEN [data |-> CopyAt(buf, status.position, data),
               status |-> Active(status.position + Len(data), 1, ttl_parts),
               ret |-> None]
         ELSE [data |-> buf, status |-> Idle, ret |-> None]
    ELSE LET end == status.position + Len(data) IN
         IF end > BufSize
         THEN [data |-> buf, status |-> Idle, ret |-> None]
         ELSE IF U8Add(part, 1) = ttl_parts
         THEN [data |-> CopyAt(buf, status.position, data),
               status |-> Idle,
               ret |-> Some(DataPrefix(CopyAt(buf, status.position, data), end))]
         ELSE [data |-> CopyAt(buf, status.position, data),
               status |-> Active(end, U8Add(part, 1), ttl_parts),
               ret |-> None]

\* handle_frag returning the whole written buffer instead of data[..end]
handle_frag_stale_tail(buf, status, part, ttl_parts, data) ==
    IF ttl_parts < 1
    THEN [data |-> buf, status |-> Idle, ret |-> None]
    ELSE IF status.tag = "Idle" /\ part = 0
    THEN [data |-> CopyAt(buf, 0, data),
          status |-> Active(Len(data), 1, ttl_parts),
          ret |-> None]
    ELSE IF status.tag = "Idle"
    THEN [data |-> buf, status |-> status, ret |-> None]
    ELSE IF status.rx_frags # part \/ status.ttl_frags # ttl_parts
    THEN IF part = 0
         THEN [data |-> CopyAt(buf, 0, data),
               status |-> Active(Len(data), 1, ttl_parts),
               ret |-> None]
         ELSE [data |-> buf, status |-> Idle, ret |-> None]
    ELSE LET end == status.position + Len(data) IN
         IF end > BufSize
         THEN [data |-> buf, status |-> Idle, ret |-> None]
         ELSE IF U8Add(part, 1) = ttl_parts
         THEN [data |-> CopyAt(buf, status.position, data),
               status |-> Idle,
               ret |-> Some(CopyAt(buf, status.position, data))]
         ELSE [data |-> CopyAt(buf, status.position, data),
               status |-> Active(end, U8Add(part, 1), ttl_parts),
               ret |-> None]

\* handle_frag without the bounds test of data.get_mut(position..end)
handle_frag_no_bounds(buf, status, part, ttl_parts, data) ==
    IF ttl_parts < 1
    THEN [data |-> buf, status |-> Idle, ret |-> None]
    ELSE IF status.tag = "Idle" /\ part = 0
    THEN [data |-> CopyAt(buf, 0, data),
          status |-> Active(Len(data), 1, ttl_parts),
          ret |-> None]
    ELSE IF status.tag = "Idle"
    THEN [data |-> buf, status |-> status, ret |-> None]
    ELSE IF status.rx_frags # part \/ status.ttl_frags # ttl_parts
    THEN IF part = 0
         THEN [data |-> CopyAt(buf, 0, data),
               status |-> Active(Len(data), 1, ttl_parts),
               ret |-> None]
         ELSE [data |-> buf, status |-> Idle, ret |-> None]
    ELSE LET end == status.position + Len(data) IN
         IF U8Add(part, 1) = ttl_parts
         THEN [data |-> CopyAt(buf, status.position, data),
               status |-> Idle,
               ret |-> Some(DataPrefix(CopyAt(buf, status.position, data), end))]
         ELSE [data |-> CopyAt(buf, status.position, data),
               status |-> Active(end, U8Add(part, 1), ttl_parts),
               ret |-> None]

\* FragBuf::handle_frag: data and status afterwards and the returned
\* Option<&[u8]> (None stands for both "pending" and "dropped").  A first
\* fragment longer than the buffer would panic in data[..data.len()]; no
\* fragment of the model is that long.
handle_frag(buf, status, part, ttl_parts, data) ==
    IF ttl_parts < 1
    THEN [data |-> buf, status |-> Idle, ret |-> None]
    ELSE IF status.tag = "Idle" /\ part = 0
    THEN [data |-> CopyAt(buf, 0, data),
          status |-> Active(Len(data), 1, ttl_parts),
          ret |-> None]
    ELSE IF status.tag = "Idle"
    THEN [data |-> buf, status |-> status, ret |-> None]
    ELSE IF status.rx_frags # part \/ status.ttl_frags # ttl_parts
    THEN IF part = 0
         THEN [data |-> CopyAt(buf, 0, data),
               status |-> Active(Len(data), 1, ttl_parts),
               ret |-> None]
         ELSE [data |-> buf, status |-> Idle, ret |-> None]
    ELSE LET end == status.position + Len(data) IN
         IF end > BufSize
         THEN [data |-> buf, status |-> Idle, ret |-> None]
         ELSE IF U8Add(part, 1) = ttl_parts
         THEN [data |-> CopyAt(buf, status.position, data),
               status |-> Idle,
               ret |-> Some(DataPrefix(CopyAt(buf, status.position, data), end))]
         ELSE [data |-> CopyAt(buf, status.position, data),
               status |-> Active(end, U8Add(part, 1), ttl_parts),
               ret |-> None]

\* to_fwd without the bypass for a frame that is one packet
to_fwd_no_fast_path(buf, status, part, ttl_parts, data) ==
    handle_frag(buf, status, part, ttl_parts, data)

\* let to_fwd = if part == 0 && ttl_parts == 1 { Some(remain) }
\*              else { frag_buf.handle_frag(part, ttl_parts, remain) }
\* of Bridge::proxy and of EsbRx::receive: the reassembler afterwards and
\* the bytes to forward, if any
to_fwd(buf, status, part, ttl_parts, data) ==
    IF part = 0 /\ ttl_parts = 1
    THEN [data |-> buf, status |-> status, ret |-> Some(data)]
    ELSE handle_frag(buf, status, part, ttl_parts, data)

\* EsbRx::receive, the arm for Bridge2Node::Proxy: a fragment with
\* ttl_parts == 0 is skipped before the reassembler sees it
receive_proxy(buf, status, part, ttl_parts, data) ==
    IF ttl_parts = 0
    THEN [data |-> buf, status |-> status, ret |-> None]
    ELSE to_fwd(buf, status, part, ttl_parts, data)

\* FragBuf::new, and fbufs(): seven of them
FragBufNew == [data |-> FragDataNew, status |-> Idle]
FragBufsNew == [i \in Slots |-> FragBufNew]

\* ProxyMessage { serial, msg }
ProxyMessage(serial, msg) == [serial |-> serial, msg |-> msg]

\* Bridge::proxy answering nothing on a pipe that holds no serial
proxy_silent(tbl, bufs, pipe, remain, part, ttl_parts) ==
    LET ser_for_pipe == serial_for_pipe(tbl, pipe) IN
    IF ser_for_pipe.is_some
    THEN IF ttl_parts = 0
         THEN [bufs |-> bufs, publish |-> None, reply |-> None]
         ELSE LET b == bufs[pipe - 1]
                  r == to_fwd(b.data, b.status, part, ttl_parts, remain)
              IN [bufs |-> [bufs EXCEPT ![pipe - 1] =
                                [data |-> r.data, status |-> r.status]],
                  publish |-> IF r.ret.is_some
                              THEN Some(ProxyMessage(ser_for_pipe.val, r.ret.val))
                              ELSE None,
                  reply |-> None]
    ELSE [bufs |-> bufs, publish |-> None, reply |-> None]

\* Bridge::proxy feeding every pipe's fragments to the first buffer
proxy_one_buffer(tbl, bufs, pipe, remain, part, ttl_parts) ==
    LET ser_for_pipe == serial_for_pipe(tbl, pipe) IN
    IF ser_for_pipe.is_some
    THEN IF ttl_parts = 0
         THEN [bufs |-> bufs, publish |-> None, reply |-> None]
         ELSE LET b == bufs[0]
                  r == to_fwd(b.data, b.status, part, ttl_parts, remain)
              IN [bufs |-> [bufs EXCEPT ![0] =
                                [data |-> r.data, status |-> r.status]],
                  publish |-> IF r.ret.is_some
                              THEN Some(ProxyMessage(ser_for_pipe.val, r.ret.val))
                              ELSE None,
                  reply |-> None]
    ELSE [bufs |-> bufs, publish |-> None, reply |-> Some(B2N_Reset)]

\* Bridge::proxy: the fragment buffers afterwards, the ProxyMessage published
\* on Bridge2HostTopic, if any, and the reply to the node, if any
proxy(tbl, bufs, pipe, remain, part, ttl_parts) ==
    LET ser_for_pipe == serial_for_pipe(tbl, pipe) IN
    IF ser_for_pipe.is_some
    THEN IF ttl_parts = 0
         THEN [bufs |-> bufs, publish |-> None, reply |-> None]
         ELSE LET b == bufs[pipe - 1]
                  r == to_fwd(b.data, b.status, part, ttl_parts, remain)
              IN [bufs |-> [bufs EXCEPT ![pipe - 1] =
                                [data |-> r.data, status |-> r.status]],
                  publish |-> IF r.ret.is_some
                              THEN Some(ProxyMessage(ser_for_pipe.val, r.ret.val))
                              ELSE None,
                  reply |-> None]
    ELSE [bufs |-> bufs, publish |-> None, reply |-> Some(B2N_Reset)]

\* Bridge::handle answering a Keepalive whatever update_time returned
handle_keepalive_always(tbl, bufs, pipe, msg, t) ==
    IF pipe = 0 /\ msg.type = "Initialize"
    THEN LET r == init_serial(tbl, msg.serial, t) IN
         [table |-> r.table, bufs |-> bufs, reply |-> r.reply, publish |-> None]
    ELSE IF pipe = 0
    THEN [table |-> tbl, bufs |-> bufs, reply |-> Some(B2N_Reset), publish |-> None]
    ELSE IF msg.type = "Initialize"
    THEN [table |-> tbl, bufs |-> bufs, reply |-> Some(B2N_Reset), publish |-> None]
    ELSE IF msg.type = "Keepalive"
    THEN LET u == update_time(tbl, pipe, msg.serial, t) IN
         [table |-> u.table, bufs |-> bufs,
          reply |-> Some(B2N_Keepalive(msg.serial)),
          publish |-> None]
    ELSE IF msg.type = "Proxy"
    THEN LET r == proxy(tbl, bufs, pipe, msg.remain, msg.part, msg.ttl_parts) IN
         [table |-> tbl, bufs |-> r.bufs, reply |-> r.reply, publish |-> r.publish]
    ELSE [table |-> tbl, bufs |-> bufs, reply |-> None, publish |-> None]

\* Bridge::handle taking an Initialize on any pipe
handle_init_any_pipe(tbl, bufs, pipe, msg, t) ==
    IF msg.type = "Initialize"
    THEN LET r == init_serial(tbl, msg.serial, t) IN
         [table |-> r.table, bufs |-> bufs, reply |-> r.reply, publish |-> None]
    ELSE IF pipe = 0
    THEN [table |-> tbl, bufs |-> bufs, reply |-> Some(B2N_Reset), publish |-> None]
    ELSE IF msg.type = "Keepalive"
    THEN LET u == update_time(tbl, pipe, msg.serial, t) IN
         [table |-> u.table, bufs |-> bufs,
          reply |-> IF u.ret THEN Some(B2N_Keepalive(msg.serial))
                    ELSE Some(B2N_Reset),
          publish |-> None]
    ELSE IF msg.type = "Proxy"
    THEN LET r == proxy(tbl, bufs, pipe, msg.remain, msg.part, msg.ttl_parts) IN
         [table |-> tbl, bufs |-> r.bufs, reply |-> r.reply, publish |-> r.publish]
    ELSE [table |-> tbl, bufs |-> bufs, reply |-> None, publish |-> None]

\* Bridge::handle with a Proxy arm that also refreshes the slot of the pipe
handle_proxy_refreshes(tbl, bufs, pipe, msg, t) ==
    IF pipe = 0 /\ msg.type = "Initialize"
    THEN LET r == init_serial(tbl, msg.serial, t) IN
         [table |-> r.table, bufs |-> bufs, reply |-> r.reply, publish |-> None]
    ELSE IF pipe = 0
    THEN [table |-> tbl, bufs |-> bufs, reply |-> Some(B2N_Reset), publish |-> None]
    ELSE IF msg.type = "Initialize"
    THEN [table |-> tbl, bufs |-> bufs, reply |-> Some(B2N_Reset), publish |-> None]
    ELSE IF msg.type = "Keepalive"
    THEN LET u == update_time(tbl, pipe, msg.serial, t) IN
         [table |-> u.table, bufs |-> bufs,
          reply |-> IF u.ret THEN Some(B2N_Keepalive(msg.serial))
                    ELSE Some(B2N_Reset),
          publish |-> None]
    ELSE IF msg.type = "Proxy"
    THEN LET r == proxy(tbl, bufs, pipe, msg.remain, msg.part, msg.ttl_parts) IN
         [table |-> IF tbl[pipe - 1].is_some
                    THEN [tbl EXCEPT ![pipe - 1] = Some(Element(tbl[pipe - 1].val.serial, t))]
                    ELSE tbl,
          bufs |-> r.bufs, reply |-> r.reply, publish |-> r.publish]
    ELSE [table |-> tbl, bufs |-> bufs, reply |-> None, publish |-> None]

\* Bridge::handle, the match on (grant.pipe(), msg): the table and the
\* fragment buffers afterwards, the reply, if any, and what is published to
\* the host, if anything
handle(tbl, bufs, pipe, msg, t) ==
    IF pipe = 0 /\ msg.type = "Initialize"
    THEN LET r == init_serial(tbl, msg.serial, t) IN
         [table |-> r.table, bufs |-> bufs, reply |-> r.reply, publish |-> None]
    ELSE IF pipe = 0
    THEN [table |-> tbl, bufs |-> bufs, reply |-> Some(B2N_Reset), publish |-> None]
    ELSE IF msg.type = "Initialize"
    THEN [table |-> tbl, bufs |-> bufs, reply |-> Some(B2N_Reset), publish |-> None]
    ELSE IF msg.type = "Keepalive"
    THEN LET u == update_time(tbl, pipe, msg.serial, t) IN
         [table |-> u.table, bufs |-> bufs,
          reply |-> IF u.ret THEN Some(B2N_Keepalive(msg.serial))
                    ELSE Some(B2N_Reset),
          publish |-> None]
    ELSE IF msg.type = "Proxy"
    THEN LET r == proxy(tbl, bufs, pipe, msg.remain, msg.part, msg.ttl_parts) IN
         [table |-> tbl, bufs |-> r.bufs, reply |-> r.reply, publish |-> r.publish]
    ELSE [table |-> tbl, bufs |-> bufs, reply |-> None, publish |-> None]

(***************************************************************************)
(* The state after construction                                            *)
(***************************************************************************)
Init ==
    /\ now = 0
    /\ addr_allocs = TableNew
    /\ next_tick = TickSecs
    /\ fresh = 0
    /\ fb_data = FragDataNew
    /\ fb_status = Idle
    /\ tx_count = 0
    /\ tx_pieces = << >>
    /\ tx_next = 0
    /\ tx_got = {}
    /\ run_start = NoStatus
    /\ frag_bufs = FragBufsNew
    /\ h_req = [pc |-> "idle"]
    /\ b2n_queue = << >>
    /\ esb_rx = None
    /\ panicked = FALSE
    /\ lost = 0
    /\ n_pc = "get_pipe"
    /\ pids = 0
    /\ n_pid = 0
    /\ n_now = 0
    /\ last_ka = 0
    /\ n_send = None
    /\ tout = None
    /\ n2b_queue = << >>
    /\ locks = [table |-> "free", sender |-> "free"]
    /\ b_task = [pc |-> "select"]
    /\ nodes = [n \in RadioNodes |-> [pipe |-> None, part |-> 0]]
    /\ n_tx = [task |-> [t \in SendTasks |-> [pc |-> "idle"]], holder |-> "free",
               queued |-> 0, sent |-> << >>, air |-> None]
    /\ last = [op |-> "init"]

(***************************************************************************)
(* The table on its own: any sequence of calls, at any time                *)
(***************************************************************************)
\* Serials are opaque, so the environment names them in the order in which
\* they are first handed to allocate_pipe: it may use any serial named
\* before, or the next unnamed one.
SerialInputs(S) == {s \in S : s <= fresh}
UseSerial(s) == fresh' = IF s = fresh THEN fresh + 1 ELSE fresh

TAdvance ==
    /\ now < MaxTime
    /\ now' = now + 1
    /\ last' = [op |-> "advance"]
    /\ UNCHANGED <<addr_allocs, fresh, next_tick, fragVars, bridgeVars, hostVars, nodeVars, runVars>>

TAllocatePipe ==
    \E s \in SerialInputs(Serials) :
        LET r == allocate_pipe(addr_allocs, s, now) IN
        /\ addr_allocs' = r.table
        /\ last' = [op |-> "allocate_pipe", serial |-> s, ret |-> r.ret]
        /\ UseSerial(s)
        /\ UNCHANGED <<now, next_tick, fragVars, bridgeVars, hostVars, nodeVars, runVars>>

TUpdateTime ==
    \E p \in PipeArgs, s \in SerialInputs(Serials) :
        LET r == update_time(addr_allocs, p, s, now) IN
        /\ addr_allocs' = r.table
        /\ last' = [op |-> "update_time", pipe |-> p, serial |-> s, ret |-> r.ret]
        /\ UNCHANGED <<now, fresh, next_tick, fragVars, bridgeVars, hostVars, nodeVars, runVars>>

TCullOlderThan ==
    \E d \in 0 .. (MaxTime + 1) :
        /\ addr_allocs' = cull_older_than(addr_allocs, d, now)
        /\ last' = [op |-> "cull_older_than", dur |-> d]
        /\ UNCHANGED <<now, fresh, next_tick, fragVars, bridgeVars, hostVars, nodeVars, runVars>>

\* the vector handed in holds whatever the caller left in it
PriorOuts == {<< >>, <<0>>, <<1, 0>>}

TExtractTable ==
    \E o \in PriorOuts :
        /\ last' = [op |-> "extract_table", prior |-> o,
                    out |-> extract_table(addr_allocs, o)]
        /\ UNCHANGED <<now, addr_allocs, fresh, next_tick, fragVars, bridgeVars, hostVars, nodeVars, runVars>>

TNext ==
    \/ TAdvance
    \/ TAllocatePipe
    \/ TUpdateTime
    \/ TCullOlderThan
    \/ TExtractTable

SpecTable == Init /\ [][TNext]_vars

(***************************************************************************)
(* The bridge while nodes attach: Initialize packets on pipe 0 from up to   *)
(* NumPipes + 1 distinct serials, and the table ticker                     *)
(***************************************************************************)
AttachSerials == 0 .. NumPipes

\* time passes
AAdvance ==
    /\ now < MaxTicks * TickSecs
    /\ now' = now + TickSecs
    /\ last' = [op |-> "advance"]
    /\ UNCHANGED <<addr_allocs, fresh, next_tick, fragVars, bridgeVars, hostVars, nodeVars, runVars>>

\* Bridge::run, Either::First: the ticker has expired
ATableTick ==
    /\ now >= next_tick
    /\ LET r == table_tick(addr_allocs, now) IN
        /\ addr_allocs' = r.table
        /\ last' = [op |-> "table_tick", tout |-> r.tout]
    /\ next_tick' = next_tick + TickSecs
    /\ UNCHANGED <<now, fresh, fragVars, bridgeVars, hostVars, nodeVars, runVars>>

\* Bridge::run, Either::Second: an Initialize packet, which an attaching node
\* sends on pipe 0, is read from the radio
ARxInitialize ==
    \E pipe \in {0}, pid \in Pids, s \in SerialInputs(AttachSerials) :
        LET msg == N2B_Initialize(s)
            r == handle(addr_allocs, frag_bufs, pipe, msg, now)
        IN
        /\ addr_allocs' = r.table
        /\ frag_bufs' = r.bufs
        /\ last' = [op |-> "rx", pipe |-> pipe, pid |-> pid, msg |-> msg,
                    reply |-> ReplyFrame(pipe, pid, r.reply)]
        /\ fresh' = IF pipe = 0 /\ s = fresh THEN fresh + 1 ELSE fresh
        /\ UNCHANGED <<now, next_tick, fragVars, hostVars, nodeVars, runVars>>

ANext ==
    \/ AAdvance
    \/ ATableTick
    \/ ARxInitialize

SpecAttach == Init /\ [][ANext]_vars

(***************************************************************************)
(* The bridge's dispatch: packets of every kind, read from the radio on     *)
(* pipe 0 and on two of the data pipes                                     *)
(***************************************************************************)
\* grant.pipe() and grant.pid() of the packets read
DPipes == {0, 1, 2}
DPids == {0, 3}
\* the serials of the two nodes that send them
DSerials == {0, 1}
\* the payload of a Proxy packet tells the pipe it was sent on and the
\* fragment it is
DRemain(pipe, part, ttl_parts) == <<(16 * pipe) + (4 * ttl_parts) + part>>
DMsgs(pipe) ==
    {N2B_Initialize(s) : s \in SerialInputs(DSerials)}
    \cup {N2B_Keepalive(s) : s \in SerialInputs(DSerials)}
    \cup {N2B_Nop}
    \cup {N2B_Proxy(part, ttl_parts, DRemain(pipe, part, ttl_parts)) :
              part \in 0 .. 1, ttl_parts \in 0 .. 2}

\* time passes
DAdvance ==
    /\ now < MaxTime
    /\ now' = now + 1
    /\ last' = [op |-> "advance"]
    /\ UNCHANGED <<addr_allocs, fresh, next_tick, fragVars, bridgeVars, hostVars, nodeVars, runVars>>

\* Bridge::run, Either::Second: a packet is read from the radio and handled
DRx ==
    \E pipe \in DPipes, pid \in DPids :
      \E msg \in DMsgs(pipe) :
        LET r == handle(addr_allocs, frag_bufs, pipe, msg, now) IN
        /\ addr_allocs' = r.table
        /\ frag_bufs' = r.bufs
        /\ last' = [op |-> "rx", pipe |-> pipe, pid |-> pid, msg |-> msg,
                    reply |-> ReplyFrame(pipe, pid, r.reply),
                    publish |-> r.publish]
        /\ fresh' = IF pipe = 0 /\ msg.type = "Initialize" /\ msg.serial = fresh
                    THEN fresh + 1 ELSE fresh
        /\ UNCHANGED <<now, next_tick, fragVars, hostVars, nodeVars, runVars>>

DNext ==
    \/ DAdvance
    \/ DRx

SpecDispatch == Init /\ [][DNext]_vars

(***************************************************************************)
(* The reassembler on its own: a sender cuts frames into fragments and     *)
(* emits them in order; each fragment is either handed to handle_frag or   *)
(* lost on the way                                                         *)
(***************************************************************************)
RECURSIVE TotalLen(_)
TotalLen(ps) == IF ps = << >> THEN 0 ELSE Len(Head(ps)) + TotalLen(Tail(ps))

RECURSIVE Concat(_)
Concat(ps) == IF ps = << >> THEN << >> ELSE Head(ps) \o Concat(Tail(ps))

\* the k-th frame of the sender, len bytes long: its bytes count up from
\* 16 * k, so that a byte tells which frame it is from and where in the frame
\* it belongs
Frame(k, len) == [i \in 1 .. len |-> (16 * k + i) % 256]

\* every way of cutting len bytes into pieces of at least one byte, as the
\* sequence of the pieces' lengths
RECURSIVE Cuts(_)
Cuts(len) ==
    IF len = 0 THEN {<< >>}
    ELSE UNION {{<<k>> \o c : c \in Cuts(len - k)} : k \in 1 .. len}

RECURSIVE Sum(_)
Sum(c) == IF c = << >> THEN 0 ELSE Head(c) + Sum(Tail(c))

\* the cuttings the sender uses: every cutting of 1 .. MaxFrameLen bytes, a
\* frame that fills the reassembly buffer exactly, cut in two halves, and one
\* that is a byte too long for it
TxCuts ==
    UNION {Cuts(len) : len \in 1 .. MaxFrameLen}
    \cup {<<BufSize \div 2, BufSize \div 2>>,
          <<BufSize \div 2, (BufSize \div 2) + 1>>}

\* the pieces of frame f cut as c
RECURSIVE Split(_, _)
Split(f, c) ==
    IF c = << >> THEN << >>
    ELSE <<SubSeq(f, 1, Head(c))>> \o Split(SubSeq(f, Head(c) + 1, Len(f)), Tail(c))

\* the sender starts on a new frame once it has emitted the previous one
FStartFrame ==
    /\ tx_next = Len(tx_pieces)
    /\ tx_count < MaxFrames
    /\ tx_count' = tx_count + 1
    /\ \E c \in TxCuts : tx_pieces' = Split(Frame(tx_count + 1, Sum(c)), c)
    /\ tx_next' = 0
    /\ tx_got' = {}
    /\ run_start' = NoStatus
    /\ last' = [op |-> "start_frame"]
    /\ UNCHANGED <<fb_data, fb_status, tableVars, bridgeVars, hostVars, nodeVars, runVars>>

\* the next fragment arrives: handle_frag(part, ttl_parts, data)
FHandleFrag ==
    /\ tx_next < Len(tx_pieces)
    /\ LET part == tx_next
           ttl_parts == Len(tx_pieces)
           data == tx_pieces[tx_next + 1]
           r == handle_frag(fb_data, fb_status, part, ttl_parts, data)
       IN
       /\ fb_data' = r.data
       /\ fb_status' = r.status
       /\ last' = [op |-> "handle_frag", part |-> part, ttl_parts |-> ttl_parts,
                   data |-> data, pre |-> fb_status, ret |-> r.ret]
    /\ tx_got' = tx_got \cup {tx_next}
    /\ run_start' = IF tx_next = 0 THEN fb_status ELSE run_start
    /\ tx_next' = tx_next + 1
    /\ UNCHANGED <<tx_pieces, tx_count, tableVars, bridgeVars, hostVars, nodeVars, runVars>>

\* the next fragment arrives at a receiver, which forwards what to_fwd gives
FReceive ==
    /\ tx_next < Len(tx_pieces)
    /\ LET part == tx_next
           ttl_parts == Len(tx_pieces)
           data == tx_pieces[tx_next + 1]
           r == receive_proxy(fb_data, fb_status, part, ttl_parts, data)
       IN
       /\ fb_data' = r.data
       /\ fb_status' = r.status
       /\ last' = [op |-> "receive", part |-> part, ttl_parts |-> ttl_parts,
                   data |-> data, pre |-> fb_status, ret |-> r.ret]
    /\ tx_got' = tx_got \cup {tx_next}
    /\ run_start' = IF tx_next = 0 THEN fb_status ELSE run_start
    /\ tx_next' = tx_next + 1
    /\ UNCHANGED <<tx_pieces, tx_count, tableVars, bridgeVars, hostVars, nodeVars, runVars>>

\* the next fragment is lost
FLose ==
    /\ tx_next < Len(tx_pieces)
    /\ tx_next' = tx_next + 1
    /\ last' = [op |-> "lose"]
    /\ UNCHANGED <<fb_data, fb_status, tx_pieces, tx_count, tx_got, run_start, tableVars, bridgeVars, hostVars, nodeVars, runVars>>

FNext ==
    \/ FStartFrame
    \/ FHandleFrag
    \/ FReceive
    \/ FLose

SpecFrag == Init /\ [][FNext]_vars

(***************************************************************************)
(* The host-to-node path: proxy_handler on the bridge cuts a host request  *)
(* into chunks and commits them to the radio queue; the node's EsbRx takes  *)
(* them from the air                                                       *)
(***************************************************************************)
\* Bridge2Node::Proxy
B2N_Proxy(part, ttl_parts) == [type |-> "Proxy", part |-> part, ttl_parts |-> ttl_parts]

\* ProxyResult
ProxyOk == [ok |-> TRUE]
ProxyErrUnknownDevice == [ok |-> FALSE, err |-> "UnknownDevice"]

\* `as u8`
AsU8(n) == n % 256

\* (arg.msg.len() + 127) / 128 with the last chunk forgotten when it is short
NumChunks_floor(len) == len \div ChunkSize

\* let chunks = (arg.msg.len() + 127) / 128
NumChunks(len) == (len + (ChunkSize - 1)) \div ChunkSize

\* arg.msg.chunks(128), the chunk of index i (from 0)
ChunkOf(msg, i) ==
    LET from == ChunkSize * i
        to == IF ChunkSize * (i + 1) < Len(msg) THEN ChunkSize * (i + 1) ELSE Len(msg)
    IN [j \in 1 .. (to - from) |-> msg[from + j]]

\* EsbHeader::new(252, 0, pipe, false) is refused for a pipe the radio does
\* not have
EsbHeaderOk(pipe) == pipe \in 0 .. NumPipes

\* the message of the host's k-th request, len bytes long: its bytes tell
\* the request, the chunk and the place in the chunk they are from
HostMsg(k, len) == [i \in 1 .. len |-> ((16 * k) + i + (7 * ((i - 1) \div ChunkSize))) % 256]

\* the packet proxy_handler commits for chunk i: the B2N Proxy header and the
\* chunk behind it, on the pipe looked up (of_req and of_len tell the request
\* it is from; they are not on the air)
ChunkPacket(req, pipe, msg, i) ==
    [pipe |-> pipe,
     msg |-> B2N_Proxy(AsU8(i), AsU8(NumChunks(Len(msg)))),
     remain |-> ChunkOf(msg, i),
     of_req |-> req,
     of_len |-> Len(msg)]

\* the nodes that attach, and the lengths of the requests the host makes
HSerials == {0, 1}
HostLens == {0, 1, ChunkSize, ChunkSize + 1, 300, BufSize}

\* a node attaches, each node once: the bridge handles its Initialize; the
\* node watched is the first to attach, and keeps the pipe it is told to use
HAttach ==
    /\ ~panicked
    /\ h_req.pc = "idle"
    /\ \E s \in HSerials :
        LET r == handle(addr_allocs, frag_bufs, 0, N2B_Initialize(s), now) IN
        /\ s = fresh
        /\ addr_allocs' = r.table
        /\ frag_bufs' = r.bufs
        /\ esb_rx' = IF ~esb_rx.is_some /\ r.reply.val.type = "InitializeAck"
                     THEN Some([serial |-> s, pipe |-> r.reply.val.use_pipe])
                     ELSE esb_rx
        /\ fresh' = fresh + 1
        /\ last' = [op |-> "attach", serial |-> s]
        /\ UNCHANGED <<now, next_tick, fragVars, h_req, b2n_queue, panicked, lost, nodeVars, runVars>>

\* proxy_handler up to the lookup: Err(UnknownDevice) when the table has no
\* pipe for the serial
HRequest ==
    /\ ~panicked
    /\ h_req.pc = "idle"
    /\ b2n_queue = << >>
    /\ tx_count < MaxFrames
    /\ tx_count + lost <= MaxFrames
    /\ \E s \in HSerials, len \in HostLens :
        LET pipe == pipe_for_serial(addr_allocs, s) IN
        /\ tx_count' = tx_count + 1
        /\ IF pipe.is_some
           THEN /\ h_req' = [pc |-> "send", req |-> tx_count + 1, serial |-> s,
                             len |-> len, pipe |-> pipe.val, i |-> 0]
                /\ last' = [op |-> "lookup", serial |-> s, pipe |-> pipe]
           ELSE /\ h_req' = [pc |-> "idle"]
                /\ last' = [op |-> "return", serial |-> s, req |-> tx_count + 1,
                            len |-> len, result |-> ProxyErrUnknownDevice,
                            pipe |-> pipe, sent |-> 0]
        /\ UNCHANGED <<tableVars, bridgeVars, fb_data, fb_status, tx_pieces,
                       tx_next, tx_got, run_start, b2n_queue, esb_rx, panicked, lost, nodeVars, runVars>>

\* proxy_handler, one turn of the loop over the chunks: the header is built,
\* the radio queue grants the packet or fails, and the chunk is committed.
\* A refused grant is `panic!()`: the firmware stops and nothing is returned
\* to the caller
HSendChunk ==
    /\ ~panicked
    /\ h_req.pc = "send"
    /\ h_req.i < NumChunks(h_req.len)
    /\ \E grant_ok \in BOOLEAN :
        IF ~EsbHeaderOk(h_req.pipe)
        THEN /\ h_req' = [pc |-> "idle"]
             /\ last' = [op |-> "return", serial |-> h_req.serial, req |-> h_req.req,
                         len |-> h_req.len, result |-> ProxyErrUnknownDevice,
                         pipe |-> Some(h_req.pipe), sent |-> h_req.i]
             /\ UNCHANGED <<b2n_queue, panicked>>
        ELSE IF ~grant_ok
        THEN /\ panicked' = TRUE
             /\ h_req' = [pc |-> "idle"]
             /\ last' = [op |-> "send_error", serial |-> h_req.serial,
                         req |-> h_req.req, sent |-> h_req.i, returned |-> None]
             /\ UNCHANGED b2n_queue
        ELSE LET pkt == ChunkPacket(h_req.req, h_req.pipe,
                                    HostMsg(h_req.req, h_req.len), h_req.i) IN
             /\ b2n_queue' = Append(b2n_queue, pkt)
             /\ h_req' = [h_req EXCEPT !.i = h_req.i + 1]
             /\ last' = [op |-> "send_chunk", req |-> h_req.req, i |-> h_req.i]
             /\ UNCHANGED panicked
    /\ UNCHANGED <<tableVars, bridgeVars, fragVars, esb_rx, lost, nodeVars, runVars>>

\* proxy_handler, after the last chunk: Ok(())
HReturn ==
    /\ ~panicked
    /\ h_req.pc = "send"
    /\ h_req.i = NumChunks(h_req.len)
    /\ h_req' = [pc |-> "idle"]
    /\ last' = [op |-> "return", serial |-> h_req.serial, req |-> h_req.req,
                len |-> h_req.len, result |-> ProxyOk,
                pipe |-> Some(h_req.pipe), sent |-> h_req.i]
    /\ UNCHANGED <<tableVars, bridgeVars, fragVars, b2n_queue, esb_rx, panicked, lost, nodeVars, runVars>>

\* EsbRx::receive, one turn of its loop: the next packet on the air is taken;
\* one on another pipe is released unread, a Proxy fragment goes through
\* receive_proxy, and what that forwards is returned to the RPC server.  The
\* queue is first in, first out, so the node is shown taking the packets once
\* proxy_handler is through with the request
NReceive ==
    /\ esb_rx.is_some
    /\ h_req.pc = "idle"
    /\ b2n_queue # << >>
    /\ LET pkt == Head(b2n_queue)
           mine == pkt.pipe = esb_rx.val.pipe
           r == IF ~mine
                THEN [data |-> fb_data, status |-> fb_status, ret |-> None]
                ELSE receive_proxy(fb_data, fb_status, pkt.msg.part,
                                   pkt.msg.ttl_parts, pkt.remain)
       IN
       /\ fb_data' = r.data
       /\ fb_status' = r.status
       /\ tx_got' = IF ~mine THEN tx_got
                    ELSE IF pkt.msg.part = 0 THEN {<<pkt.of_req, 0>>}
                    ELSE tx_got \cup {<<pkt.of_req, pkt.msg.part>>}
       /\ last' = [op |-> "node_rx", req |-> pkt.of_req, len |-> pkt.of_len,
                   part |-> pkt.msg.part, ttl_parts |-> pkt.msg.ttl_parts,
                   mine |-> mine, pre |-> fb_status, ret |-> r.ret]
    /\ b2n_queue' = Tail(b2n_queue)
    /\ UNCHANGED <<tableVars, bridgeVars, tx_count, tx_pieces, tx_next, run_start,
                   h_req, esb_rx, panicked, lost, nodeVars, runVars>>

\* the next packet on the air is lost; requests and losses together are at
\* most MaxFrames + 1
NLose ==
    /\ b2n_queue # << >>
    /\ h_req.pc = "idle"
    /\ tx_count + lost <= MaxFrames
    /\ lost' = lost + 1
    /\ b2n_queue' = Tail(b2n_queue)
    /\ last' = [op |-> "lose"]
    /\ UNCHANGED <<tableVars, bridgeVars, fragVars, h_req, esb_rx, panicked, nodeVars, runVars>>

HNext ==
    \/ HAttach
    \/ HRequest
    \/ HSendChunk
    \/ HReturn
    \/ NReceive
    \/ NLose

SpecHost == Init /\ [][HNext]_vars

(***************************************************************************)
(* The node firmware: get_pipe until the bridge acknowledges, then the     *)
(* keepalive ticker, EsbTx::send and EsbRx::receive on the adopted pipe;   *)
(* a panic restarts the firmware                                           *)
(***************************************************************************)
\* get_unique_id() of the node, and the serial of some other node
NodeSerial == 0
OtherSerial == 1

\* the parsed Bridge2Node messages that reach the node
NodeInMsgs ==
    {B2N_InitializeAck(NodeSerial, 1), B2N_InitializeAck(NodeSerial, 2),
     B2N_InitializeAck(OtherSerial, 1),
     B2N_Keepalive(NodeSerial), B2N_Keepalive(OtherSerial),
     B2N_Proxy(0, 0), B2N_Proxy(0, 1), B2N_Proxy(0, 2), B2N_Proxy(1, 2),
     B2N_Reset}

\* what wait_read_packet().with_timeout(1 s) gives get_pipe: the timeout, a
\* packet extract_topic2 cannot parse, or a parsed message
GetPipeResponses ==
    {[kind |-> "timeout"], [kind |-> "unparsable"]}
    \cup {[kind |-> "msg", msg |-> m] : m \in NodeInMsgs}

\* the bytes behind the B2N header of a Proxy packet
NodeInRemain(part, ttl_parts) == <<(4 * ttl_parts) + part + 1>>

\* what wait_read_packet() gives EsbRx::receive: a packet that is empty,
\* cannot be parsed, or holds a message, on pipe 1, and some of these on
\* pipe 2
SteadyPackets ==
    {[pipe |-> 1, kind |-> k] : k \in {"empty", "unparsable"}}
    \cup {[pipe |-> 1, kind |-> "msg", msg |-> m] : m \in NodeInMsgs}
    \cup {[pipe |-> 2, kind |-> "msg", msg |-> m] :
              m \in {B2N_Reset, B2N_Keepalive(OtherSerial), B2N_Proxy(0, 1)}}

\* a packet that goes out on the attach pipe whatever the pipe adopted
NodePacket_pipe_zero(pipe, pid, msg) == [pipe |-> 0, pid |-> pid, msg |-> msg]

\* the packet the node commits to its radio queue
NodePacket(pipe, pid, msg) == [pipe |-> pipe, pid |-> pid, msg |-> msg]

\* (0..4).cycle(): the pid after pid
NextOfCycle_stuck(pid) == pid
NextOfCycle(pid) == (pid + 1) % 4

\* EsbTxInner::pid: the value returned, and the field afterwards
PidOf(pid) == pid % 4
PidAfter(pid) == U8Add(pid, 1)

\* the keepalive task's period test and its ticker, in ms
KeepaliveMs == 3000
TickMs == 100
\* how long send_keepalive takes until last_ka is read from the clock
SendDelays == {0, 40}
\* the node's clock is followed for MaxNodeTicks ticks of the ticker
MaxNodeTicks == 62
\* lengths of the frames the node's RPC server sends
NodeSendLens == {ChunkSize + 1}

\* keepalive task: `last_ka.elapsed() >= Duration::from_secs(3)`
KeepaliveDue_late(t, ka) == t - ka > KeepaliveMs
KeepaliveDue(t, ka) == t - ka >= KeepaliveMs

\* a node that reads on whatever arrives
EndsSession_never(pkt, rx) == FALSE

\* the packet is read by the node in steady state and is a Reset, an
\* InitializeAck that names another serial or another pipe, or a Keepalive
\* that names another serial
EndsSession(pkt, rx) ==
    /\ pkt.pipe = rx.pipe
    /\ pkt.kind = "msg"
    /\ \/ pkt.msg.type = "Reset"
       \/ pkt.msg.type = "InitializeAck" /\ (pkt.msg.serial # rx.serial \/ pkt.msg.use_pipe # rx.pipe)
       \/ pkt.msg.type = "Keepalive" /\ pkt.msg.serial # rx.serial

\* a panic that leaves the firmware running where it was
NodeBoot_stay == UNCHANGED <<nodeVars, esb_rx, fb_data, fb_status>>

\* the firmware starts (power-on, or sys_reset from the panic handler): all
\* of RAM is as at Init
NodeBoot ==
    /\ n_pc' = "get_pipe"
    /\ pids' = 0
    /\ n_pid' = 0
    /\ n_now' = 0
    /\ last_ka' = 0
    /\ n_send' = None
    /\ esb_rx' = None
    /\ fb_data' = FragDataNew
    /\ fb_status' = Idle

\* get_pipe, first half of a turn of its loop: Initialize{serial} goes out on
\* pipe 0 with the next pid of the cycle
NGetPipeSend ==
    /\ n_pc = "get_pipe"
    /\ pids' = NextOfCycle(pids)
    /\ n_pc' = "wait_ack"
    /\ last' = [op |-> "get_pipe_tx",
                pkt |-> NodePacket(0, pids, N2B_Initialize(NodeSerial))]
    /\ UNCHANGED <<n_pid, n_now, last_ka, n_send, tableVars, fragVars, bridgeVars,
                   hostVars, runVars>>

\* get_pipe, second half: the response or the timeout.  Only an InitializeAck
\* for this serial returns; main then builds EsbTx and EsbRx on use_pipe and
\* spawns the keepalive task
GetPipeResponseOf(r) ==
    /\ n_pc = "wait_ack"
    /\ last' = [op |-> "get_pipe_rx", resp |-> r, sent_pid |-> last.pkt.pid]
    /\ IF r.kind = "msg" /\ r.msg.type = "InitializeAck" /\ r.msg.serial = NodeSerial
       THEN /\ n_pc' = "steady"
            /\ esb_rx' = Some([serial |-> NodeSerial, pipe |-> r.msg.use_pipe])
            /\ n_pid' = 0
            /\ last_ka' = n_now
       ELSE /\ n_pc' = "get_pipe"
            /\ UNCHANGED <<esb_rx, n_pid, last_ka>>
    /\ UNCHANGED <<pids, n_now, n_send, tableVars, fragVars, bridgeVars,
                   h_req, b2n_queue, panicked, lost, runVars>>

NGetPipeResponse == \E r \in GetPipeResponses : GetPipeResponseOf(r)

\* keepalive task, one turn of its loop: the ticker fires TickMs after the
\* tick before, and one packet goes out on the pipe; send_keepalive takes one
\* of the delays, and the clock is followed for ticks ticks
NTickWith(delays, ticks) ==
    /\ n_pc = "steady"
    /\ n_now < ticks * TickMs
    /\ LET t == n_now + TickMs IN
       \E d \in delays :
        /\ n_now' = t
        /\ IF KeepaliveDue(t, last_ka)
           THEN /\ last' = [op |-> "tick", at |-> t, ka |-> last_ka,
                            pkt |-> NodePacket(esb_rx.val.pipe, PidOf(n_pid),
                                               N2B_Keepalive(esb_rx.val.serial))]
                /\ last_ka' = t + d
           ELSE /\ d = 0
                /\ last' = [op |-> "tick", at |-> t, ka |-> last_ka,
                            pkt |-> NodePacket(esb_rx.val.pipe, PidOf(n_pid), N2B_Nop)]
                /\ UNCHANGED last_ka
        /\ n_pid' = PidAfter(n_pid)
    /\ UNCHANGED <<n_pc, pids, n_send, tableVars, fragVars, bridgeVars, hostVars, runVars>>

NTick == NTickWith(SendDelays, MaxNodeTicks)

\* the same, with send_keepalive taking no time, up to the tick after the
\* first Keepalive
NTickPrompt == NTickWith({0}, (KeepaliveMs \div TickMs) + 1)

\* EsbTx::send is called with a frame by the RPC server
NSendStart ==
    /\ n_pc = "steady"
    /\ ~n_send.is_some
    /\ tx_count < MaxFrames
    /\ tx_count' = tx_count + 1
    /\ \E len \in NodeSendLens : n_send' = Some([req |-> tx_count + 1, len |-> len, i |-> 0])
    /\ last' = [op |-> "send"]
    /\ UNCHANGED <<n_pc, pids, n_pid, n_now, last_ka, tableVars, fb_data, fb_status,
                   tx_pieces, tx_next, tx_got, run_start, bridgeVars, hostVars, runVars>>

\* EsbTx::send, one turn of the loop over the chunks, and its return after
\* the last
NSendChunk ==
    /\ n_pc = "steady"
    /\ n_send.is_some
    /\ LET f == n_send.val
           msg == Frame(f.req, f.len)
       IN
       /\ last' = [op |-> "send_chunk",
                   pkt |-> NodePacket(esb_rx.val.pipe, PidOf(n_pid),
                                      N2B_Proxy(AsU8(f.i), AsU8(NumChunks(f.len)),
                                                ChunkOf(msg, f.i)))]
       /\ n_send' = IF f.i + 1 = NumChunks(f.len) THEN None
                    ELSE Some([f EXCEPT !.i = f.i + 1])
    /\ n_pid' = PidAfter(n_pid)
    /\ UNCHANGED <<n_pc, pids, n_now, last_ka, tableVars, fragVars, bridgeVars,
                   hostVars, runVars>>

\* EsbRx::receive, one turn of its loop.  A packet on another pipe, an empty
\* one and one that does not parse are released unread; Reset, and an
\* InitializeAck or Keepalive that is not this node's, panic; a Proxy
\* fragment goes through receive_proxy
ReceivePacket(pkt) ==
    /\ n_pc = "steady"
    /\ LET mine == pkt.pipe = esb_rx.val.pipe
            read == mine /\ pkt.kind = "msg"
            panics ==
                /\ read
                /\ \/ pkt.msg.type = "Reset"
                   \/ /\ pkt.msg.type = "InitializeAck"
                      /\ \/ pkt.msg.serial # esb_rx.val.serial
                         \/ pkt.msg.use_pipe # esb_rx.val.pipe
                   \/ /\ pkt.msg.type = "Keepalive"
                      /\ pkt.msg.serial # esb_rx.val.serial
            r == IF read /\ pkt.msg.type = "Proxy"
                 THEN receive_proxy(fb_data, fb_status, pkt.msg.part, pkt.msg.ttl_parts,
                                    NodeInRemain(pkt.msg.part, pkt.msg.ttl_parts))
                 ELSE [data |-> fb_data, status |-> fb_status, ret |-> None]
        IN
        /\ last' = [op |-> "rx", pkt |-> pkt, pre |-> fb_status, panics |-> panics,
                    ret |-> r.ret]
        /\ IF panics
           THEN NodeBoot
           ELSE /\ fb_data' = r.data
                /\ fb_status' = r.status
                /\ UNCHANGED <<nodeVars, esb_rx>>
    /\ UNCHANGED <<tableVars, tx_count, tx_pieces, tx_next, tx_got, run_start,
                   bridgeVars, h_req, b2n_queue, panicked, lost, runVars>>

NRx == \E pkt \in SteadyPackets : ReceivePacket(pkt)

NodeNext ==
    \/ NGetPipeSend
    \/ NGetPipeResponse
    \/ NTickPrompt
    \/ NSendStart
    \/ NSendChunk
    \/ NRx

SpecNode == Init /\ [][NodeNext]_vars

\* the keepalive task on its own clock
KaNext ==
    \/ NGetPipeSend
    \/ NGetPipeResponse
    \/ NTick
    \/ NRx

SpecKeepalive == Init /\ [][KaNext]_vars

(***************************************************************************)
(* The bridge while slots age: two nodes attach on pipe 0 and send          *)
(* Keepalives on the data pipes, the clock runs in seconds, the table       *)
(* ticker fires every TickSecs, and the host looks serials up               *)
(***************************************************************************)
CullSerials == {0, 1}
\* both nodes attach on pipe 0; the first of them sends Keepalives, on its own
\* pipe or on the other's
CullPackets ==
    {[pipe |-> 0, msg |-> N2B_Initialize(s)] : s \in CullSerials}
    \cup {[pipe |-> p, msg |-> N2B_Keepalive(0)] : p \in {1, 2}}
\* packets arrive in the second in which the ticker expires and two seconds
\* later
RxSeconds == {0, 2}

\* a second passes; the bridge task gets to an expired ticker within a second
CAdvance ==
    /\ now < MaxCullSecs
    /\ now <= next_tick
    /\ now' = now + 1
    /\ last' = [op |-> "advance"]
    /\ UNCHANGED <<addr_allocs, fresh, next_tick, fragVars, bridgeVars, hostVars, nodeVars, runVars>>

\* Bridge::run, Either::First, and table_tick down to the end of the block
\* that holds the table's lock: cull and snapshot
CTableTick ==
    /\ now >= next_tick
    /\ ~tout.is_some
    /\ LET r == table_tick(addr_allocs, now) IN
        /\ addr_allocs' = r.table
        /\ tout' = Some(r.tout)
        /\ last' = [op |-> "table_tick", pre |-> addr_allocs, tout |-> r.tout]
    /\ next_tick' = next_tick + TickSecs
    /\ UNCHANGED <<now, fresh, fragVars, bridgeVars, hostVars, nodeVars, n2b_queue, taskVars>>

\* table_tick, the rest: the snapshot is published on BridgeTableTopic
CPublish ==
    /\ tout.is_some
    /\ tout' = None
    /\ last' = [op |-> "publish", table |-> tout.val]
    /\ UNCHANGED <<tableVars, fragVars, bridgeVars, hostVars, nodeVars, n2b_queue, taskVars>>

\* Bridge::run, Either::Second: an Initialize or a Keepalive is read from the
\* radio and handled; the bridge task is not inside table_tick
CRx ==
    /\ ~tout.is_some
    /\ (now % TickSecs) \in RxSeconds
    /\ \E pkt \in CullPackets :
        LET r == handle(addr_allocs, frag_bufs, pkt.pipe, pkt.msg, now) IN
        /\ addr_allocs' = r.table
        /\ frag_bufs' = r.bufs
        /\ last' = [op |-> "rx", pipe |-> pkt.pipe, msg |-> pkt.msg, reply |-> r.reply]
        /\ UNCHANGED <<now, next_tick, fresh, fragVars, hostVars, nodeVars, runVars>>

\* proxy_handler, the lookup: a host request for a serial finds its pipe or
\* returns UnknownDevice; it runs in a task of its own
CLookup ==
    \E s \in CullSerials :
        LET pipe == pipe_for_serial(addr_allocs, s) IN
        /\ last' = [op |-> "lookup", serial |-> s,
                    ret |-> IF pipe.is_some THEN ProxyOk ELSE ProxyErrUnknownDevice]
        /\ UNCHANGED <<tableVars, fragVars, bridgeVars, hostVars, nodeVars, runVars>>

CNext ==
    \/ CAdvance
    \/ CTableTick
    \/ CPublish
    \/ CRx
    \/ CLookup

SpecCull == Init /\ [][CNext]_vars

(***************************************************************************)
(* A node and the bridge together: the node attaches, may fall silent and  *)
(* be culled, and comes back; up to NumPipes other nodes attach and stay   *)
(* alive.  Packets are delivered, one at a time in each direction; packet  *)
(* ids play no part and are left out.                                      *)
(***************************************************************************)
\* the other nodes
OtherSerials == 1 .. NumPipes
Holds(tbl, serial) == \E i \in Slots : tbl[i].is_some /\ tbl[i].val.serial = serial
\* every other node in the table has sent its Keepalive in this period
OthersRefreshed(tbl, t) ==
    \A i \in Slots : (tbl[i].is_some /\ tbl[i].val.serial \in OtherSerials) => tbl[i].val.last_msg = t
\* Instants are only ever subtracted from one another: moving all of them
\* back by d changes nothing the code computes
ShiftBack(tbl, d) ==
    [i \in Slots |-> IF tbl[i].is_some
                     THEN Some(Element(tbl[i].val.serial, tbl[i].val.last_msg - d))
                     ELSE None]

\* one period of the table ticker passes, after the tick of this period has
\* run and the other nodes have sent their Keepalives; a packet on its way is
\* handled within the period
RAdvance ==
    /\ now < next_tick
    /\ n2b_queue = << >>
    /\ b2n_queue = << >>
    /\ OthersRefreshed(addr_allocs, now)
    /\ IF now < MaxReadmitSecs
       THEN /\ now' = now + TickSecs
            /\ UNCHANGED <<addr_allocs, next_tick>>
       ELSE /\ now' = now
            /\ addr_allocs' = ShiftBack(addr_allocs, TickSecs)
            /\ next_tick' = next_tick - TickSecs
    /\ last' = [op |-> "advance"]
    /\ UNCHANGED <<fresh, fragVars, bridgeVars, hostVars, nodeVars, runVars>>

\* Bridge::run, Either::Second: another node's Initialize is read on pipe 0;
\* the other nodes attach in the order of their serials: all but the last two
\* of them before the node sends its first packet, the last two while the node
\* is in steady state
OtherInitialize(s) ==
    /\ ~Holds(addr_allocs, s)
    /\ \A o \in OtherSerials : o < s => Holds(addr_allocs, o)
    /\ LET r == handle(addr_allocs, frag_bufs, 0, N2B_Initialize(s), now) IN
        /\ addr_allocs' = r.table
        /\ frag_bufs' = r.bufs
        /\ last' = [op |-> "rx_other", pipe |-> 0, msg |-> N2B_Initialize(s), reply |-> r.reply]
    /\ UNCHANGED <<now, next_tick, fresh, fragVars, hostVars, nodeVars, runVars>>

ROtherInitialize ==
    \E s \in OtherSerials :
        /\ IF s < NumPipes - 1
           THEN now = 0 /\ n_pc = "get_pipe" /\ ~Holds(addr_allocs, NodeSerial)
           ELSE n_pc = "steady"
        /\ OtherInitialize(s)

\* Bridge::run, Either::Second: another node's Keepalive is read on its pipe;
\* in each period they come in the order of their serials
ROtherKeepalive ==
    \E i \in Slots :
        /\ addr_allocs[i].is_some
        /\ addr_allocs[i].val.serial \in OtherSerials
        /\ addr_allocs[i].val.last_msg < now
        /\ \A j \in Slots :
             (addr_allocs[j].is_some /\ addr_allocs[j].val.serial \in OtherSerials
                 /\ addr_allocs[j].val.serial < addr_allocs[i].val.serial)
                => addr_allocs[j].val.last_msg = now
        /\ LET msg == N2B_Keepalive(addr_allocs[i].val.serial)
               r == handle(addr_allocs, frag_bufs, i + 1, msg, now)
           IN
            /\ addr_allocs' = r.table
            /\ frag_bufs' = r.bufs
            /\ last' = [op |-> "rx_other", pipe |-> i + 1, msg |-> msg, reply |-> r.reply]
        /\ UNCHANGED <<now, next_tick, fresh, fragVars, hostVars, nodeVars, runVars>>

\* get_pipe: the node sends an Initialize on pipe 0
RNodeInitialize ==
    /\ n_pc = "get_pipe"
    /\ n2b_queue = << >>
    /\ b2n_queue = << >>
    /\ n2b_queue' = <<[pipe |-> 0, msg |-> N2B_Initialize(NodeSerial)]>>
    /\ n_pc' = "wait_ack"
    /\ last' = [op |-> "node_tx", pkt |-> n2b_queue'[1]]
    /\ UNCHANGED <<tableVars, fragVars, bridgeVars, hostVars, pids, n_pid, n_now, last_ka, n_send, tout, taskVars>>

\* keepalive: the node, in steady state, sends a Keepalive on its pipe
RNodeKeepalive ==
    /\ n_pc = "steady"
    /\ n2b_queue = << >>
    /\ b2n_queue = << >>
    /\ n2b_queue' = <<[pipe |-> esb_rx.val.pipe, msg |-> N2B_Keepalive(esb_rx.val.serial)]>>
    /\ last' = [op |-> "node_tx", pkt |-> n2b_queue'[1]]
    /\ UNCHANGED <<tableVars, fragVars, bridgeVars, hostVars, nodeVars, tout, taskVars>>

\* Bridge::run, Either::Second: the node's packet is read from the radio and
\* handled, and the reply is committed to the radio
RBridgeRx ==
    /\ n2b_queue # << >>
    /\ LET pkt == Head(n2b_queue)
           r == handle(addr_allocs, frag_bufs, pkt.pipe, pkt.msg, now)
       IN
        /\ addr_allocs' = r.table
        /\ frag_bufs' = r.bufs
        /\ b2n_queue' = IF r.reply.is_some
                        THEN Append(b2n_queue, [pipe |-> pkt.pipe, kind |-> "msg", msg |-> r.reply.val])
                        ELSE b2n_queue
        /\ last' = [op |-> "rx", pipe |-> pkt.pipe, msg |-> pkt.msg, reply |-> r.reply,
                    held |-> Holds(addr_allocs, NodeSerial)]
    /\ n2b_queue' = Tail(n2b_queue)
    /\ UNCHANGED <<now, next_tick, fresh, fragVars, h_req, esb_rx, panicked, lost, nodeVars, tout, taskVars>>

\* the node reads the bridge's reply: in get_pipe an InitializeAck with its
\* serial ends the loop and anything else starts the next round; in steady
\* state EsbRx::receive panics on a Reset, and the firmware starts again
RNodeRx ==
    /\ b2n_queue # << >>
    /\ LET pkt == Head(b2n_queue) IN
        /\ last' = [op |-> "node_rx", pkt |-> pkt, pc |-> n_pc]
        /\ IF n_pc = "wait_ack"
           THEN IF pkt.msg.type = "InitializeAck" /\ pkt.msg.serial = NodeSerial
                THEN /\ n_pc' = "steady"
                     /\ esb_rx' = Some([serial |-> NodeSerial, pipe |-> pkt.msg.use_pipe])
                ELSE /\ n_pc' = "get_pipe"
                     /\ esb_rx' = esb_rx
           ELSE IF EndsSession(pkt, esb_rx.val)
                THEN /\ n_pc' = "get_pipe"
                     /\ esb_rx' = None
                ELSE UNCHANGED <<n_pc, esb_rx>>
    /\ b2n_queue' = Tail(b2n_queue)
    /\ UNCHANGED <<tableVars, fragVars, bridgeVars, h_req, panicked, lost, pids, n_pid, n_now, last_ka, n_send, runVars>>

RNext ==
    \/ RAdvance
    \/ ATableTick
    \/ ROtherInitialize
    \/ ROtherKeepalive
    \/ RNodeInitialize
    \/ RNodeKeepalive
    \/ RBridgeRx
    \/ RNodeRx

\* the bridge's run loop serves its ticker and its radio, the other nodes
\* keep sending and time passes
RWorld == RAdvance \/ ATableTick \/ ROtherKeepalive
\* the node's get_pipe loop and its receive task go on, and the bridge handles
\* and answers the packet it holds; at most one of the three is enabled
RTraffic == RNodeInitialize \/ RBridgeRx \/ RNodeRx

SpecReadmit ==
    /\ Init
    /\ [][RNext]_vars
    /\ WF_vars(RWorld)
    /\ WF_vars(RTraffic)

(***************************************************************************)
(* The reassembler under a free caller: handle_frag is a public function   *)
(* and is called with any part, any total and any data                     *)
(***************************************************************************)
\* the totals a caller hands over
CallTotals == 0 .. 3
\* the parts: the first ones, the last one a u8 can hold, and the one the
\* reassembler expects next; every other value is one it does not expect
CallParts(status) ==
    {0, 1, 2, 255} \cup (IF status.tag = "Active" THEN {status.rx_frags} ELSE {})
\* the data: nothing or one byte with the first two parts, nothing with the
\* later ones
CallData(part) == IF part <= 1 THEN {<< >>, <<1>>} ELSE {<< >>}

\* handle_frag reaches `part + 1`: the status is Active, part and total are
\* the expected ones and the data fits
ReachesIncrement(status, part, ttl_parts, data) ==
    /\ ttl_parts >= 1
    /\ status.tag = "Active"
    /\ status.rx_frags = part
    /\ status.ttl_frags = ttl_parts
    /\ status.position + Len(data) <= BufSize

\* handle_frag starts a frame with this fragment
StartsFrame(status, part, ttl_parts) ==
    /\ ttl_parts >= 1
    /\ part = 0
    /\ \/ status.tag = "Idle"
       \/ status.tag = "Active" /\ (status.rx_frags # part \/ status.ttl_frags # ttl_parts)

\* one call of handle_frag; `part + 1` on part = 255 wraps to 0 in a build
\* without overflow checks and panics in a build with them
CHandleFrag ==
    /\ ~panicked
    /\ \E part \in CallParts(fb_status), ttl_parts \in CallTotals :
      \E data \in CallData(part) :
        LET r == handle_frag(fb_data, fb_status, part, ttl_parts, data) IN
        \/ /\ fb_data' = r.data
           /\ fb_status' = r.status
           /\ tx_pieces' = IF r.status.tag = "Idle" THEN << >>
                           ELSE IF StartsFrame(fb_status, part, ttl_parts) THEN <<data>>
                           ELSE IF ReachesIncrement(fb_status, part, ttl_parts, data)
                                THEN Append(tx_pieces, data)
                                ELSE tx_pieces
           /\ last' = [op |-> "handle_frag", part |-> part, ttl_parts |-> ttl_parts,
                       data |-> data, pre |-> fb_status, ret |-> r.ret]
           /\ UNCHANGED panicked
        \/ /\ ReachesIncrement(fb_status, part, ttl_parts, data)
           /\ part = 255
           /\ panicked' = TRUE
           /\ last' = [op |-> "handle_frag_panic", part |-> part, ttl_parts |-> ttl_parts,
                       data |-> data, pre |-> fb_status]
           /\ UNCHANGED <<fb_data, fb_status, tx_pieces>>
    /\ UNCHANGED <<tx_count, tx_next, tx_got, run_start, tableVars, bridgeVars,
                   h_req, b2n_queue, esb_rx, lost, nodeVars, runVars>>

\* FragBuf::reset_frag
CResetFrag ==
    /\ ~panicked
    /\ fb_status' = Idle
    /\ tx_pieces' = << >>
    /\ last' = [op |-> "reset_frag"]
    /\ UNCHANGED <<fb_data, tx_count, tx_next, tx_got, run_start, tableVars, bridgeVars,
                   hostVars, nodeVars, runVars>>

CallerNext ==
    \/ CHandleFrag
    \/ CResetFrag

SpecCaller == Init /\ [][CallerNext]_vars

(***************************************************************************)
(* Raw radio payloads: the bridge and the node read payloads that carry    *)
(* any header key and any bytes behind it                                  *)
(***************************************************************************)
\* N2BTopic::TOPIC_KEY2 and B2NTopic::TOPIC_KEY2, and the key of some other
\* topic
N2BKey == "node/to/bridge"
B2NKey == "bridge/to/node"
OtherKey == "other"

\* a payload as extract_topic2::<T> reads it: whether
\* VarHeader::take_from_slice finds a header, the key of that header, and
\* what postcard::take_from_bytes::<T::Message> makes of the bytes behind it
Payload(hdr, key, body) == [hdr |-> hdr, key |-> key, body |-> body]

\* an extract_topic2 that reads the body whatever the key
extract_topic2_any_key(key, data) ==
    IF ~data.hdr THEN None ELSE data.body

\* extract_topic2::<T>, T being the topic with TOPIC_KEY2 = key
extract_topic2(key, data) ==
    IF ~data.hdr THEN None
    ELSE IF data.key # key THEN None
    ELSE data.body

\* the bodies that read as a Node2Bridge, and the payloads the bridge's
\* radio hands to Bridge::run
WireN2B ==
    {N2B_Initialize(NodeSerial), N2B_Keepalive(NodeSerial), N2B_Nop,
     N2B_Proxy(0, 2, <<1>>), N2B_Proxy(1, 2, <<2>>), N2B_Proxy(0, 1, <<3>>)}
BridgePayloads ==
    {Payload(TRUE, k, Some(m)) : k \in {N2BKey, B2NKey, OtherKey}, m \in WireN2B}
    \cup {Payload(TRUE, N2BKey, None), Payload(FALSE, N2BKey, None)}

\* the bodies that read as a Bridge2Node, and the payloads the node's radio
\* hands to get_pipe and to EsbRx::receive
WireB2N ==
    {B2N_InitializeAck(NodeSerial, 1), B2N_Keepalive(NodeSerial),
     B2N_Keepalive(OtherSerial), B2N_Proxy(0, 2), B2N_Proxy(1, 2), B2N_Reset}
NodePayloads ==
    {Payload(TRUE, k, Some(m)) : k \in {N2BKey, B2NKey, OtherKey}, m \in WireB2N}
    \cup {Payload(TRUE, B2NKey, None), Payload(FALSE, B2NKey, None)}

\* the packet the node's code goes on with: the message extract_topic2 found
\* in the payload, or none
Extracted(key, data) ==
    LET e == extract_topic2(key, data) IN
    IF e.is_some THEN [kind |-> "msg", msg |-> e.val, data |-> data]
    ELSE [kind |-> "unparsable", data |-> data]

\* Bridge::run, Either::Second: a payload is read from the radio; it is
\* handled if extract_topic2::<N2BTopic> finds a message in it, and released.
\* The bridge shares no state with the node, so its steps are placed between
\* the turns of get_pipe's loop
WBridgeRx ==
    /\ n_pc # "wait_ack"
    /\ \E pipe \in {0, 1}, pid \in {0}, data \in BridgePayloads :
        LET e == extract_topic2(N2BKey, data)
            r == IF e.is_some
                 THEN handle(addr_allocs, frag_bufs, pipe, e.val, now)
                 ELSE [table |-> addr_allocs, bufs |-> frag_bufs,
                       reply |-> None, publish |-> None]
        IN
        /\ addr_allocs' = r.table
        /\ frag_bufs' = r.bufs
        /\ last' = [op |-> "bridge_rx", pipe |-> pipe, pid |-> pid, data |-> data,
                    reply |-> ReplyFrame(pipe, pid, r.reply),
                    publish |-> r.publish]
        /\ UNCHANGED <<now, fresh, next_tick, fragVars, hostVars, nodeVars, runVars>>

\* get_pipe, second half of a turn: the payload that came within the second
WGetPipeResponse ==
    \E data \in NodePayloads : GetPipeResponseOf(Extracted(B2NKey, data))

\* EsbRx::receive, one turn of its loop, on a payload that is not empty
WNodeRx ==
    \E pipe \in {1, 2}, data \in NodePayloads :
        ReceivePacket([pipe |-> pipe] @@ Extracted(B2NKey, data))

WNext ==
    \/ WBridgeRx
    \/ NGetPipeSend
    \/ WGetPipeResponse
    \/ WNodeRx

SpecWire == Init /\ [][WNext]_vars

(***************************************************************************)
(* The bridge's tasks and their mutexes: radio_prx runs Bridge::run, the    *)
(* RPC server runs proxy_handler; both lock the table and the radio sender *)
(***************************************************************************)
RadioPrx == "radio_prx"
ProxyHandler == "proxy_handler"
Free == "free"

\* the bridge's clock is followed for MaxTaskSecs seconds
MaxTaskSecs == 30

\* a guard of the table mutex that lives until its function returns
DropTableGuard_at_return(l) == l

\* the guard of the table mutex is a temporary of a block and is dropped at
\* the end of the block
DropTableGuard(l) == [l EXCEPT !.table = Free]

\* the packets radio_prx reads, and the requests the host makes
TaskSerials == {0, 1}
TaskPackets ==
    {[pipe |-> 0, msg |-> N2B_Initialize(s)] : s \in TaskSerials}
    \cup {[pipe |-> 1, msg |-> m] :
             m \in {N2B_Keepalive(0), N2B_Proxy(0, 1, <<7>>), N2B_Nop,
                    N2B_Initialize(0)}}
TaskRequests == {[serial |-> 0, len |-> n] : n \in {1, ChunkSize + 1}}

\* Bridge::handle, the arms of the match that lock the table
LocksTable(pkt) ==
    \/ pkt.pipe = 0 /\ pkt.msg.type = "Initialize"
    \/ pkt.pipe # 0 /\ pkt.msg.type \in {"Keepalive", "Proxy"}

\* time passes while no tick is due
KAdvance ==
    /\ now < MaxTaskSecs
    /\ now < next_tick
    /\ now' = now + TickSecs
    /\ last' = [op |-> "advance"]
    /\ UNCHANGED <<addr_allocs, next_tick, fresh, fragVars, bridgeVars, hostVars,
                   nodeVars, tout, n2b_queue, taskVars>>

\* Bridge::run, select: the ticker has expired, and table_tick goes to lock
\* the table
KSelectTick ==
    /\ b_task.pc = "select"
    /\ now >= next_tick
    /\ next_tick' = next_tick + TickSecs
    /\ b_task' = [pc |-> "table_wait", for |-> "tick"]
    /\ last' = [op |-> "select_tick"]
    /\ UNCHANGED <<now, addr_allocs, fresh, fragVars, bridgeVars, hostVars,
                   nodeVars, tout, n2b_queue, locks, nodes, n_tx>>

\* Bridge::run, select: a packet is read; handle goes to lock the table, or
\* has its reply without the table (Reset), or has none (Nop)
KSelectPacket ==
    /\ b_task.pc = "select"
    /\ \E pkt \in TaskPackets :
        /\ b_task' = IF LocksTable(pkt)
                     THEN [pc |-> "table_wait", for |-> "handle", pkt |-> pkt]
                     ELSE IF pkt.msg.type = "Nop"
                     THEN [pc |-> "select"]
                     ELSE [pc |-> "sender_wait", pkt |-> pkt, reply |-> B2N_Reset]
        /\ last' = [op |-> "select_packet", pkt |-> pkt]
    /\ UNCHANGED <<tableVars, fragVars, bridgeVars, hostVars, nodeVars, tout,
                   n2b_queue, locks, nodes, n_tx>>

\* self.table.lock().await returns the guard
KLockTable ==
    /\ b_task.pc = "table_wait"
    /\ locks.table = Free
    /\ locks' = [locks EXCEPT !.table = RadioPrx]
    /\ b_task' = [b_task EXCEPT !.pc = "table_locked"]
    /\ last' = [op |-> "lock", task |-> RadioPrx, mutex |-> "table"]
    /\ UNCHANGED <<tableVars, fragVars, bridgeVars, hostVars, nodeVars, tout, n2b_queue, nodes, n_tx>>

\* table_tick, the block under the guard: cull and snapshot; then the guard
\* is dropped and the publish awaited
KTick ==
    /\ b_task.pc = "table_locked"
    /\ b_task.for = "tick"
    /\ LET r == table_tick(addr_allocs, now) IN
        /\ addr_allocs' = r.table
        /\ b_task' = [pc |-> "publish", table |-> r.tout]
        /\ last' = [op |-> "table_tick", pre |-> addr_allocs, tout |-> r.tout]
    /\ locks' = DropTableGuard(locks)
    /\ UNCHANGED <<now, next_tick, fresh, fragVars, bridgeVars, hostVars, nodeVars,
                   tout, n2b_queue, nodes, n_tx>>

\* handle, the table operation of the arm under the guard, and what follows
\* it up to the next await: the publish of a frame, the lock of the radio
\* sender for a reply, or the return
KTableOp ==
    /\ b_task.pc = "table_locked"
    /\ b_task.for = "handle"
    /\ LET pkt == b_task.pkt
           r == handle(addr_allocs, frag_bufs, pkt.pipe, pkt.msg, now)
       IN
        /\ addr_allocs' = r.table
        /\ frag_bufs' = r.bufs
        /\ b_task' = IF r.publish.is_some
                     THEN [pc |-> "publish", frame |-> r.publish.val]
                     ELSE IF r.reply.is_some
                     THEN [pc |-> "sender_wait", pkt |-> pkt, reply |-> r.reply.val]
                     ELSE [pc |-> "select"]
        /\ last' = [op |-> "table_op", task |-> RadioPrx, pkt |-> pkt]
    /\ locks' = DropTableGuard(locks)
    /\ UNCHANGED <<now, next_tick, fresh, fragVars, hostVars, nodeVars, tout, n2b_queue, nodes, n_tx>>

\* prpc_sender.publish(..).await returns
KPublish ==
    /\ b_task.pc = "publish"
    /\ b_task' = [pc |-> "select"]
    /\ last' = [op |-> "publish", task |-> RadioPrx]
    /\ UNCHANGED <<tableVars, fragVars, bridgeVars, hostVars, nodeVars, tout,
                   n2b_queue, locks, nodes, n_tx>>

\* self.esb_sender.sender.lock().await returns the guard
KLockSender ==
    /\ b_task.pc = "sender_wait"
    /\ locks.sender = Free
    /\ locks' = [locks EXCEPT !.sender = RadioPrx]
    /\ b_task' = [b_task EXCEPT !.pc = "grant"]
    /\ last' = [op |-> "lock", task |-> RadioPrx, mutex |-> "sender"]
    /\ UNCHANGED <<tableVars, fragVars, bridgeVars, hostVars, nodeVars, tout, n2b_queue, nodes, n_tx>>

\* guard.wait_grant_packet(header).await returns: the reply is committed, or
\* the grant was refused; handle returns and the guard is dropped
KCommit ==
    /\ b_task.pc = "grant"
    /\ \E grant_ok \in BOOLEAN :
        last' = [op |-> "bridge_commit", pipe |-> b_task.pkt.pipe,
                 msg |-> b_task.reply, committed |-> grant_ok]
    /\ locks' = [locks EXCEPT !.sender = Free]
    /\ b_task' = [pc |-> "select"]
    /\ UNCHANGED <<tableVars, fragVars, bridgeVars, hostVars, nodeVars, tout, n2b_queue, nodes, n_tx>>

\* the RPC server calls proxy_handler, which goes to lock the table
KCall ==
    /\ h_req.pc = "idle"
    /\ \E rq \in TaskRequests :
        /\ h_req' = [pc |-> "table_wait", serial |-> rq.serial, len |-> rq.len]
        /\ last' = [op |-> "call", serial |-> rq.serial, len |-> rq.len]
    /\ UNCHANGED <<tableVars, fragVars, bridgeVars, b2n_queue, esb_rx, panicked, lost,
                   nodeVars, runVars>>

\* context.table.lock().await returns the guard
KHostLockTable ==
    /\ h_req.pc = "table_wait"
    /\ locks.table = Free
    /\ locks' = [locks EXCEPT !.table = ProxyHandler]
    /\ h_req' = [h_req EXCEPT !.pc = "table_locked"]
    /\ last' = [op |-> "lock", task |-> ProxyHandler, mutex |-> "table"]
    /\ UNCHANGED <<tableVars, fragVars, bridgeVars, b2n_queue, esb_rx, panicked, lost,
                   nodeVars, tout, n2b_queue, b_task, nodes, n_tx>>

\* proxy_handler, the block under the guard: pipe_for_serial; then the guard
\* is dropped, and the handler returns Err(UnknownDevice) or goes to lock the
\* radio sender for chunk 0
KHostLookup ==
    /\ h_req.pc = "table_locked"
    /\ LET pipe == pipe_for_serial(addr_allocs, h_req.serial) IN
        /\ h_req' = IF pipe.is_some
                    THEN [pc |-> "sender_wait", serial |-> h_req.serial,
                          len |-> h_req.len, pipe |-> pipe.val, i |-> 0]
                    ELSE [pc |-> "idle"]
        /\ last' = [op |-> "lookup", serial |-> h_req.serial, pipe |-> pipe]
    /\ locks' = DropTableGuard(locks)
    /\ UNCHANGED <<tableVars, fragVars, bridgeVars, b2n_queue, esb_rx, panicked, lost,
                   nodeVars, tout, n2b_queue, b_task, nodes, n_tx>>

\* context.esb_sender.sender.lock().await returns the guard
KHostLockSender ==
    /\ h_req.pc = "sender_wait"
    /\ locks.sender = Free
    /\ locks' = [locks EXCEPT !.sender = ProxyHandler]
    /\ h_req' = [h_req EXCEPT !.pc = "grant"]
    /\ last' = [op |-> "lock", task |-> ProxyHandler, mutex |-> "sender"]
    /\ UNCHANGED <<tableVars, fragVars, bridgeVars, b2n_queue, esb_rx, panicked, lost,
                   nodeVars, tout, n2b_queue, b_task, nodes, n_tx>>

\* guard.wait_grant_packet(header).await returns the grant: chunk i is
\* committed on the pipe looked up, the guard is dropped at the end of the
\* turn, and the loop goes on to the next chunk or the handler returns Ok
KHostCommit ==
    /\ h_req.pc = "grant"
    /\ last' = [op |-> "host_commit", serial |-> h_req.serial, pipe |-> h_req.pipe,
                msg |-> B2N_Proxy(AsU8(h_req.i), AsU8(NumChunks(h_req.len)))]
    /\ locks' = [locks EXCEPT !.sender = Free]
    /\ h_req' = IF h_req.i + 1 < NumChunks(h_req.len)
                THEN [h_req EXCEPT !.pc = "sender_wait", !.i = h_req.i + 1]
                ELSE [pc |-> "idle"]
    /\ UNCHANGED <<tableVars, fragVars, bridgeVars, b2n_queue, esb_rx, panicked, lost,
                   nodeVars, tout, n2b_queue, b_task, nodes, n_tx>>

TaskNext ==
    \/ KAdvance
    \/ KSelectTick
    \/ KSelectPacket
    \/ KLockTable
    \/ KTick
    \/ KTableOp
    \/ KPublish
    \/ KLockSender
    \/ KCommit
    \/ KCall
    \/ KHostLockTable
    \/ KHostLookup
    \/ KHostLockSender
    \/ KHostCommit

SpecTasks == Init /\ [][TaskNext]_vars

(***************************************************************************)
(* Two nodes and the bridge while pipes change owner: a node attaches,     *)
(* sends Keepalives and frames on the pipe it has adopted, is culled when  *)
(* the bridge has not heard its Keepalives, and restarts when it reads a   *)
(* Reset                                                                   *)
(***************************************************************************)
\* the bridge's clock is followed for MaxOwnerSecs seconds
MaxOwnerSecs == 30

\* the seconds at which the nodes send: when they attach, and when the slots
\* of that second come up for the cull
OwnerRxSecs == {0, TIMEOUT}

\* the payload of a fragment tells the node that sent it and the part it is
OwnerRemain(n, part) == <<(16 * n) + part + 1>>

\* what a node in steady state sends next: a Keepalive, a Nop, or the next
\* fragment of a frame of one or two parts
OwnerMsgs(n, part) ==
    {N2B_Keepalive(n), N2B_Nop}
    \cup (IF part = 0
          THEN {N2B_Proxy(0, ttl, OwnerRemain(n, 0)) : ttl \in {1, 2}}
          ELSE {N2B_Proxy(1, 2, OwnerRemain(n, 1))})

\* EsbTx::send: the part the node sends after msg
PartAfter(part, msg) ==
    IF msg.type # "Proxy" THEN part
    ELSE IF msg.part + 1 < msg.ttl_parts THEN msg.part + 1
    ELSE 0

\* time passes while no tick is due and no reply is on its way
OAdvance ==
    /\ now < MaxOwnerSecs
    /\ now < next_tick
    /\ b2n_queue = << >>
    /\ now' = now + TickSecs
    /\ last' = [op |-> "advance"]
    /\ UNCHANGED <<addr_allocs, next_tick, fresh, fragVars, bridgeVars, hostVars,
                   nodeVars, runVars>>

\* Bridge::run, Either::First, between a reply and the next packet
OTableTick ==
    /\ b2n_queue = << >>
    /\ ATableTick

\* get_pipe of a node that has no pipe: its Initialize is handled by the
\* bridge, and the node adopts the pipe of an InitializeAck that names it
OInitialize ==
    /\ b2n_queue = << >>
    /\ now \in OwnerRxSecs
    /\ \E n \in RadioNodes :
        LET msg == N2B_Initialize(n)
            r == handle(addr_allocs, frag_bufs, 0, msg, now)
            acked == /\ r.reply.is_some
                     /\ r.reply.val.type = "InitializeAck"
                     /\ r.reply.val.serial = n
        IN
        /\ ~nodes[n].pipe.is_some
        /\ addr_allocs' = r.table
        /\ frag_bufs' = r.bufs
        /\ nodes' = IF acked
                    THEN [nodes EXCEPT ![n] = [pipe |-> Some(r.reply.val.use_pipe),
                                               part |-> 0]]
                    ELSE nodes
        /\ last' = [op |-> "rx", node |-> n, pipe |-> 0, msg |-> msg,
                    reply |-> r.reply, publish |-> r.publish]
        /\ UNCHANGED <<now, next_tick, fresh, fragVars, hostVars, nodeVars, tout,
                       n2b_queue, locks, b_task, n_tx>>

\* a node sends a packet on the pipe it has adopted; the bridge hears it and
\* handles it, its reply going to the radio queue of that pipe, or does not
\* hear it
OSend ==
    /\ b2n_queue = << >>
    /\ now \in OwnerRxSecs
    /\ \E n \in RadioNodes, heard \in BOOLEAN :
        /\ nodes[n].pipe.is_some
        /\ \E msg \in OwnerMsgs(n, nodes[n].part) :
            LET pipe == nodes[n].pipe.val
                r == IF heard
                     THEN handle(addr_allocs, frag_bufs, pipe, msg, now)
                     ELSE [table |-> addr_allocs, bufs |-> frag_bufs,
                           reply |-> None, publish |-> None]
            IN
            /\ addr_allocs' = r.table
            /\ frag_bufs' = r.bufs
            /\ nodes' = [nodes EXCEPT ![n].part = PartAfter(nodes[n].part, msg)]
            /\ b2n_queue' = IF r.reply.is_some
                            THEN <<[pipe |-> pipe, kind |-> "msg", msg |-> r.reply.val]>>
                            ELSE << >>
            /\ last' = [op |-> IF heard THEN "rx" ELSE "unheard", node |-> n,
                        pipe |-> pipe, msg |-> msg,
                        reply |-> r.reply, publish |-> r.publish]
    /\ UNCHANGED <<now, next_tick, fresh, fragVars, h_req, esb_rx, panicked, lost,
                   nodeVars, tout, n2b_queue, locks, b_task, n_tx>>

\* the reply goes out on its pipe and is read by a node that has adopted
\* that pipe: EsbRx::receive takes what arrives on self.pipe, and a Reset or
\* a Keepalive of another serial ends the session
ODeliver ==
    /\ b2n_queue # << >>
    /\ LET pkt == Head(b2n_queue) IN
       \E n \in RadioNodes :
        /\ nodes[n].pipe = Some(pkt.pipe)
        /\ nodes' = IF EndsSession(pkt, [serial |-> n, pipe |-> pkt.pipe])
                    THEN [nodes EXCEPT ![n] = [pipe |-> None, part |-> 0]]
                    ELSE nodes
        /\ last' = [op |-> "node_rx", node |-> n, pkt |-> pkt,
                    held |-> serial_for_pipe(addr_allocs, pkt.pipe),
                    to |-> last.node, sent |-> last.msg]
    /\ b2n_queue' = Tail(b2n_queue)
    /\ UNCHANGED <<tableVars, fragVars, bridgeVars, h_req, esb_rx, panicked, lost,
                   nodeVars, tout, n2b_queue, locks, b_task, n_tx>>

\* the reply is not read by any node
ODrop ==
    /\ b2n_queue # << >>
    /\ b2n_queue' = Tail(b2n_queue)
    /\ last' = [op |-> "reply_lost"]
    /\ UNCHANGED <<tableVars, fragVars, bridgeVars, h_req, esb_rx, panicked, lost,
                   nodeVars, runVars>>

OwnerNext ==
    \/ OAdvance
    \/ OTableTick
    \/ OInitialize
    \/ OSend
    \/ ODeliver
    \/ ODrop

SpecOwner == Init /\ [][OwnerNext]_vars

(***************************************************************************)
(* A node that stays alive: it attaches, its keepalive task runs on the    *)
(* node's clock, every packet it sends is heard by the bridge, and the     *)
(* bridge's ticker culls                                                   *)
(***************************************************************************)
\* the node's clock is followed for MaxLiveSecs seconds after the attach
MaxLiveSecs == 36
\* the node attaches up to a period of the ticker after the bridge started
LiveAttachSecs == 0 .. (TickSecs - 1)

\* the bridge's clock before the node attaches
LWait ==
    /\ n_pc = "get_pipe"
    /\ now < next_tick
    /\ now + 1 \in LiveAttachSecs
    /\ now' = now + 1
    /\ last' = [op |-> "advance"]
    /\ UNCHANGED <<addr_allocs, next_tick, fresh, fragVars, bridgeVars, hostVars,
                   nodeVars, runVars>>

\* get_pipe: the Initialize is handled by the bridge and its InitializeAck
\* read by the node; main builds EsbTx and EsbRx and spawns the keepalive
\* task, which reads the clock into last_ka
LAttach ==
    /\ n_pc = "get_pipe"
    /\ LET msg == N2B_Initialize(NodeSerial)
           r == handle(addr_allocs, frag_bufs, 0, msg, now)
       IN
        /\ addr_allocs' = r.table
        /\ frag_bufs' = r.bufs
        /\ r.reply.val.type = "InitializeAck"
        /\ esb_rx' = Some([serial |-> NodeSerial, pipe |-> r.reply.val.use_pipe])
        /\ last' = [op |-> "rx", pipe |-> 0, msg |-> msg, reply |-> r.reply]
    /\ n_pc' = "steady"
    /\ last_ka' = n_now
    /\ UNCHANGED <<now, next_tick, fresh, fragVars, h_req, b2n_queue, panicked, lost,
                   pids, n_pid, n_now, n_send, runVars>>

\* keepalive task, one turn of its loop, with the bridge on the other end:
\* the ticker fires TickMs after the tick before, the Keepalive or the Nop
\* goes out and is handled by the bridge, and the node reads the reply; the
\* bridge's clock shows the whole seconds of the time since it started
LTick ==
    /\ n_pc = "steady"
    /\ n_now < MaxLiveSecs * 1000
    /\ now < next_tick
    /\ LET t == n_now + TickMs
           secs == IF t % 1000 = 0 THEN now + 1 ELSE now
           due == KeepaliveDue(t, last_ka)
           msg == IF due THEN N2B_Keepalive(esb_rx.val.serial) ELSE N2B_Nop
           r == handle(addr_allocs, frag_bufs, esb_rx.val.pipe, msg, secs)
           ends == /\ r.reply.is_some
                   /\ EndsSession([pipe |-> esb_rx.val.pipe, kind |-> "msg",
                                   msg |-> r.reply.val], esb_rx.val)
       IN
       \E d \in SendDelays :
        /\ due \/ d = 0
        /\ now' = secs
        /\ addr_allocs' = r.table
        /\ frag_bufs' = r.bufs
        /\ last' = [op |-> "tick", at |-> t, msg |-> msg, reply |-> r.reply]
        /\ IF ends
           THEN NodeBoot
           ELSE /\ n_now' = t
                /\ last_ka' = IF due THEN t + d ELSE last_ka
                /\ n_pid' = PidAfter(n_pid)
                /\ UNCHANGED <<n_pc, pids, n_send, esb_rx, fb_data, fb_status>>
    /\ UNCHANGED <<next_tick, fresh, tx_count, tx_pieces, tx_next, tx_got, run_start,
                   h_req, b2n_queue, panicked, lost, runVars>>

LiveNext ==
    \/ LWait
    \/ LAttach
    \/ LTick
    \/ ATableTick

SpecLive == Init /\ [][LiveNext]_vars

(***************************************************************************)
(* The node's sending side: three tasks send through clones of one EsbTx,  *)
(* each packet under the mutex of EsbTxInner; the executor is cooperative, *)
(* so a task runs from one await that suspends to the next                 *)
(***************************************************************************)
\* packets the radio's TX queue takes before wait_grant_packet suspends
TxQueueCap == 1
\* the numbers of chunks of the frames the RPC tasks send
FrameChunks == {1, 2, 3}

\* a mutex that is handed to a waiting task when its guard is dropped
Unlock_handoff(x, t) ==
    LET waiting == {u \in SendTasks \ {t} : x.task[u].pc = "lock_wait"} IN
    [x EXCEPT !.holder = IF waiting = {} THEN "free" ELSE CHOOSE u \in waiting : TRUE]

\* the guard of self.inner is dropped at the end of the loop's turn (or of
\* send_keepalive, send_nop): the mutex is free, and a waiting task is woken
\* to try again
Unlock(x, t) == [x EXCEPT !.holder = "free"]

\* the packet a task commits for its chunk i of n
TxPacket(t, i, n) ==
    [task |-> t, kind |-> IF t = "keepalive" THEN "Keepalive" ELSE "Proxy",
     part |-> i, ttl_parts |-> n]

\* EsbTx::send (send_keepalive, send_nop) of task t from the lock of its
\* next chunk up to the await at which it suspends, or to its return:
\* self.inner.lock().await suspends when another task holds the mutex;
\* wait_grant_packet suspends, the guard held, when the queue is full;
\* otherwise the chunk is committed, the guard dropped, and the loop goes on
RECURSIVE RunSend(_, _)
RunSend(x, t) ==
    LET me == x.task[t] IN
    IF x.holder \notin {"free", t}
    THEN [x EXCEPT !.task[t].pc = "lock_wait"]
    ELSE IF x.queued >= TxQueueCap
    THEN [x EXCEPT !.holder = t, !.task[t].pc = "grant_wait"]
    ELSE LET pkt == TxPacket(t, me.i, me.n)
             y == Unlock([x EXCEPT !.holder = t,
                                   !.queued = x.queued + 1,
                                   !.sent = Append(x.sent, pkt),
                                   !.air = IF pkt.kind = "Proxy" THEN Some(pkt)
                                           ELSE x.air], t)
         IN IF me.i + 1 = me.n
            THEN [y EXCEPT !.task[t] = [pc |-> "idle"]]
            ELSE RunSend([y EXCEPT !.task[t] = [pc |-> "run", i |-> me.i + 1,
                                                n |-> me.n]], t)

\* a task calls send with a frame of n chunks, or the keepalive task calls
\* send_keepalive or send_nop
XSend ==
    \E t \in SendTasks, n \in FrameChunks :
        /\ n_tx.task[t].pc = "idle"
        /\ t = "keepalive" => n = 1
        /\ n_tx' = RunSend([n_tx EXCEPT !.task[t] = [pc |-> "run", i |-> 0, n |-> n],
                                        !.sent = << >>], t)
        /\ last' = [op |-> "send", task |-> t, n |-> n, air |-> n_tx.air,
                    sent |-> n_tx'.sent]
        /\ UNCHANGED <<tableVars, fragVars, bridgeVars, hostVars, nodeVars, tout,
                       n2b_queue, locks, b_task, nodes>>

\* a suspended task is woken and polled: the mutex has been released, or
\* the queue has room again
XResume ==
    \E t \in SendTasks :
        /\ \/ n_tx.task[t].pc = "lock_wait" /\ n_tx.holder \in {"free", t}
           \/ n_tx.task[t].pc = "grant_wait" /\ n_tx.queued < TxQueueCap
        /\ n_tx' = RunSend([n_tx EXCEPT !.sent = << >>], t)
        /\ last' = [op |-> "resume", task |-> t, air |-> n_tx.air,
                    sent |-> n_tx'.sent]
        /\ UNCHANGED <<tableVars, fragVars, bridgeVars, hostVars, nodeVars, tout,
                       n2b_queue, locks, b_task, nodes>>

\* the radio has sent the packet at the head of the TX queue
XDrain ==
    /\ n_tx.queued > 0
    /\ n_tx' = [n_tx EXCEPT !.queued = n_tx.queued - 1, !.sent = << >>]
    /\ last' = [op |-> "drain"]
    /\ UNCHANGED <<tableVars, fragVars, bridgeVars, hostVars, nodeVars, tout,
                   n2b_queue, locks, b_task, nodes>>

SendNext ==
    \/ XSend
    \/ XResume
    \/ XDrain

SpecSend == Init /\ [][SendNext]_vars

(***************************************************************************)
(* The attach loop against a table that other nodes fill: get_pipe of      *)
(* poststation-node/src/main.rs with Bridge::run, as in the re-admission   *)
(* cycle above, but the last two of the other nodes may send their         *)
(* Initialize at any time, also while the node is in get_pipe.             *)
(***************************************************************************)

\* Bridge::run, Either::Second: another node's Initialize is read on pipe 0;
\* the first five attach before the node sends its first packet
GOtherInitialize ==
    \E s \in OtherSerials :
        /\ s < NumPipes - 1 => (now = 0 /\ n_pc = "get_pipe" /\ ~Holds(addr_allocs, NodeSerial))
        /\ OtherInitialize(s)

GNext ==
    \/ RAdvance
    \/ ATableTick
    \/ GOtherInitialize
    \/ ROtherKeepalive
    \/ RNodeInitialize
    \/ RNodeKeepalive
    \/ RBridgeRx
    \/ RNodeRx

\* as in the re-admission cycle: the bridge's run loop, the clock and the
\* other nodes go on, and so do the node's get_pipe loop, its receive task
\* and the bridge's handling of the packet it holds
SpecGetPipe ==
    /\ Init
    /\ [][GNext]_vars
    /\ WF_vars(RWorld)
    /\ WF_vars(RTraffic)

(***************************************************************************)
(* Properties of the pipe table                                            *)
(***************************************************************************)
Occupied(tbl) == {i \in Slots : tbl[i].is_some}
Holders(tbl, serial) == {i \in Occupied(tbl) : tbl[i].val.serial = serial}
FirstEmpty(tbl) == CHOOSE i \in Slots \ Occupied(tbl) :
                       \A j \in Slots \ Occupied(tbl) : i <= j

\* C1: after any sequence of allocate_pipe, update_time and cull_older_than
\* calls no serial occupies more than one of the seven slots, and every
\* occupied slot is reached through exactly one pipe index in 1..=7.
C1_PipeTableUnique ==
    /\ DOMAIN addr_allocs = Slots
    /\ \A i, j \in Occupied(addr_allocs) :
           addr_allocs[i].val.serial = addr_allocs[j].val.serial => i = j
    /\ \A i \in Occupied(addr_allocs) :
           /\ (i + 1) \in 1 .. NumPipes
           /\ pipe_for_serial(addr_allocs, addr_allocs[i].val.serial) = Some(i + 1)
           /\ serial_for_pipe(addr_allocs, i + 1) = Some(addr_allocs[i].val.serial)
           /\ \A p \in PipeArgs \ {i + 1} :
                  serial_for_pipe(addr_allocs, p) # Some(addr_allocs[i].val.serial)

\* a repeated serial finds its slot behind a hole that a cull has left
C1_Witness ==
    /\ last.op = "allocate_pipe"
    /\ last.ret = Some(PipeAllocExisting(2))
    /\ ~addr_allocs[0].is_some
    /\ addr_allocs[2].is_some

\* C2: allocate_pipe(serial) for a serial that is not in the table, with at
\* least one slot empty, returns New(p) for the lowest-numbered empty pipe p,
\* stores the serial there with last_msg = now, and leaves every other slot
\* as it was.
C2_FirstFree ==
    [][(/\ last'.op = "allocate_pipe"
        /\ Holders(addr_allocs, last'.serial) = {}
        /\ Occupied(addr_allocs) # Slots)
       => LET e == FirstEmpty(addr_allocs) IN
          /\ last'.ret = Some(PipeAllocNew(e + 1))
          /\ (e + 1) \in 1 .. NumPipes
          /\ addr_allocs'[e] = Some(Element(last'.serial, now))
          /\ \A i \in Slots \ {e} : addr_allocs'[i] = addr_allocs[i]]_vars

\* the hole at pipe 2 is filled although pipe 3 is occupied and pipes 4..7
\* are empty
C2_Witness ==
    /\ last.op = "allocate_pipe"
    /\ last.ret = Some(PipeAllocNew(2))
    /\ addr_allocs[0].is_some
    /\ addr_allocs[2].is_some
    /\ addr_allocs[1].val.last_msg = now

\* C5: update_time(p, s) returns true iff p is in 1..=7, slot p is occupied
\* and holds s; on true only that slot's last_msg changes, to the clock's
\* value; on false the table is not modified.
C5_UpdateTime ==
    [][last'.op = "update_time"
       => LET p == last'.pipe
              s == last'.serial
              hit == /\ p \in 1 .. NumPipes
                     /\ addr_allocs[p - 1].is_some
                     /\ addr_allocs[p - 1].val.serial = s
          IN
          /\ last'.ret <=> hit
          /\ last'.ret =>
                /\ addr_allocs'[p - 1] = Some(Element(s, now))
                /\ \A i \in Slots \ {p - 1} : addr_allocs'[i] = addr_allocs[i]
          /\ ~last'.ret => addr_allocs' = addr_allocs]_vars

\* a keepalive at time 1 has refreshed pipe 2 and left pipe 1 at time 0
C5_Witness ==
    /\ last.op = "update_time"
    /\ last.ret
    /\ last.pipe = 2
    /\ now = 1
    /\ addr_allocs[1].val.last_msg = 1
    /\ addr_allocs[0].is_some
    /\ addr_allocs[0].val.last_msg = 0

\* C6: after cull_older_than(d) at time now a slot is occupied iff it was
\* occupied before with now - last_msg < d (last_msg not later than now);
\* the surviving slots keep their serial and last_msg.
C6_CullExact ==
    [][last'.op = "cull_older_than"
       => \A i \in Slots :
            /\ addr_allocs'[i].is_some <=>
                  /\ addr_allocs[i].is_some
                  /\ addr_allocs[i].val.last_msg <= now
                  /\ now - addr_allocs[i].val.last_msg < last'.dur
            /\ addr_allocs'[i].is_some => addr_allocs'[i] = addr_allocs[i]]_vars

\* cull_older_than(1) at time 1 has removed pipe 1 and kept pipe 2
C6_Witness ==
    /\ last.op = "cull_older_than"
    /\ last.dur = 1
    /\ now = 1
    /\ ~addr_allocs[0].is_some
    /\ addr_allocs[1].is_some
    /\ addr_allocs[1].val.last_msg = 1
    /\ fresh >= 2

\* the serials of the occupied slots, each once, in increasing pipe order
InPipeOrder(tbl, o) ==
    /\ Len(o) = Cardinality(Occupied(tbl))
    /\ Len(o) <= NumPipes
    /\ \A i \in Occupied(tbl) :
           o[Cardinality({j \in Occupied(tbl) : j < i}) + 1] = tbl[i].val.serial
    /\ \A k, l \in 1 .. Len(o) : o[k] = o[l] => k = l

\* C7: extract_table leaves in the output vector exactly the serials of the
\* occupied slots, each once, in increasing pipe order, whatever the vector
\* held before, and does not modify the table; with a single serial attached
\* the snapshot is the one-element list of that serial.
C7_Snapshot ==
    [][last'.op = "extract_table"
       => /\ addr_allocs' = addr_allocs
          /\ InPipeOrder(addr_allocs, last'.out)
          /\ \A i \in Slots : Occupied(addr_allocs) = {i}
                 => last'.out = <<addr_allocs[i].val.serial>>]_vars

\* a vector that held two serials now holds those of pipes 2 and 3
C7_Witness ==
    /\ last.op = "extract_table"
    /\ last.prior = <<1, 0>>
    /\ last.out = <<1, 2>>
    /\ ~addr_allocs[0].is_some

(***************************************************************************)
(* Properties of the attach handshake on the bridge                        *)
(***************************************************************************)
RxInitializeOnZero(l) ==
    /\ l.op = "rx"
    /\ l.pipe = 0
    /\ l.msg.type = "Initialize"

\* C3: allocate_pipe(s) for a serial that is in the table returns Existing(p)
\* for the pipe it occupies and leaves the table, last_msg included, as it
\* was; the bridge answers the repeated Initialize with InitializeAck
\* carrying that pipe.
C3_Reconnect ==
    [][(/\ RxInitializeOnZero(last')
        /\ Holders(addr_allocs, last'.msg.serial) # {})
       => \A i \in Holders(addr_allocs, last'.msg.serial) :
            /\ allocate_pipe(addr_allocs, last'.msg.serial, now).ret
                   = Some(PipeAllocExisting(i + 1))
            /\ addr_allocs' = addr_allocs
            /\ last'.reply = Some([pipe |-> 0, pid |-> last'.pid,
                   msg |-> B2N_InitializeAck(last'.msg.serial, i + 1)])]_vars

\* serial 1, attached at time 0, sends Initialize again at time 5
C3_Witness ==
    /\ RxInitializeOnZero(last)
    /\ last.msg.serial = 1
    /\ last.reply.val.msg = B2N_InitializeAck(1, 2)
    /\ now = TickSecs
    /\ addr_allocs[1].val.last_msg = 0

\* C4: with all seven slots held by other serials allocate_pipe returns None,
\* the table and its snapshot stay as they were and the bridge replies Reset;
\* while nothing has been culled, the k-th distinct serial to attach is given
\* pipe k, for k = 1..7.
C4_Full ==
    [][RxInitializeOnZero(last')
       => /\ (/\ Occupied(addr_allocs) = Slots
              /\ Holders(addr_allocs, last'.msg.serial) = {})
             => /\ allocate_pipe(addr_allocs, last'.msg.serial, now).ret = None
                /\ addr_allocs' = addr_allocs
                /\ extract_table(addr_allocs', << >>) = extract_table(addr_allocs, << >>)
                /\ last'.reply = Some([pipe |-> 0, pid |-> last'.pid,
                                       msg |-> B2N_Reset])
          /\ (/\ last'.msg.serial = fresh
              /\ fresh < NumPipes
              /\ now < TIMEOUT)
             => last'.reply = Some([pipe |-> 0, pid |-> last'.pid,
                    msg |-> B2N_InitializeAck(fresh, fresh + 1)])]_vars

\* the eighth serial is turned away by a full table
C4_Witness ==
    /\ RxInitializeOnZero(last)
    /\ last.msg.serial = NumPipes
    /\ last.reply.val.msg = B2N_Reset
    /\ Occupied(addr_allocs) = Slots
    /\ \A i \in Slots : addr_allocs[i].val.serial = i

(***************************************************************************)
(* Properties of the reassembler                                           *)
(***************************************************************************)
\* the last step handed over a fragment, and with it every fragment of the
\* current frame up to that one has been handed over, in order
InOrderRun ==
    /\ last.op = "handle_frag"
    /\ tx_got = 0 .. (tx_next - 1)

\* what handing over the fragments of a frame in order must give: nothing
\* until the last fragment, then the frame, with the reassembler Idle again
RunOutcome ==
    IF tx_next = Len(tx_pieces)
    THEN /\ last.ret = Some(Concat(tx_pieces))
         /\ fb_status = Idle
    ELSE /\ last.ret = None
         /\ fb_status = Active(TotalLen(SubSeq(tx_pieces, 1, tx_next)),
                               tx_next, Len(tx_pieces))

\* C8 as claimed: for a frame of at most 1024 bytes cut into n >= 1 pieces,
\* fed in order to an Idle reassembler, handle_frag returns nothing on every
\* piece but the last and the whole frame on the last, and is Idle afterwards.
C8_RoundTripAnyN ==
    (/\ InOrderRun
     /\ run_start = Idle
     /\ TotalLen(tx_pieces) <= BufSize)
    => RunOutcome

\* C8, amended: the same for n >= 2 pieces (a single piece fed as
\* handle_frag(0, 1, piece) returns nothing and leaves the reassembler Active).
C8_RoundTrip ==
    (/\ InOrderRun
     /\ run_start = Idle
     /\ TotalLen(tx_pieces) <= BufSize
     /\ Len(tx_pieces) >= 2)
    => RunOutcome

\* the second frame, in three pieces, is returned whole from a buffer that
\* still holds the first frame's bytes
C8_Witness ==
    /\ InOrderRun
    /\ run_start = Idle
    /\ tx_count = 2
    /\ Len(tx_pieces) = 3
    /\ tx_next = 3
    /\ last.ret = Some(Concat(tx_pieces))
    /\ fb_data # FragDataNew

\* part 0 of the current frame met a reassembler that held a proper prefix of
\* a multi-fragment frame
ProperPrefixBuffered ==
    /\ run_start.tag = "Active"
    /\ run_start.rx_frags < run_start.ttl_frags

\* C9 as claimed: with a frame partly buffered, feeding (part 0, total m) of a
\* new frame returns nothing, drops the old bytes and starts the new frame, so
\* that the remaining fragments of the new frame end in exactly its bytes.
C9_RestartAnyM ==
    (/\ InOrderRun
     /\ ProperPrefixBuffered
     /\ TotalLen(tx_pieces) <= BufSize)
    => /\ RunOutcome
       /\ tx_next = 1 => last.ret = None

\* C9, amended: the same for a new frame of m >= 2 fragments (with m = 1 the
\* new frame stays in the buffer and is never returned).
C9_Restart ==
    (/\ InOrderRun
     /\ ProperPrefixBuffered
     /\ TotalLen(tx_pieces) <= BufSize
     /\ Len(tx_pieces) >= 2)
    => /\ RunOutcome
       /\ tx_next = 1 =>
             /\ last.ret = None
             /\ last.pre = run_start
             /\ DataPrefix(fb_data, Len(tx_pieces[1])) = tx_pieces[1]

\* the second frame took over a reassembler that was Active and is returned
\* whole
C9_Witness ==
    /\ InOrderRun
    /\ ProperPrefixBuffered
    /\ tx_count = 2
    /\ tx_next = Len(tx_pieces)
    /\ last.ret = Some(Concat(tx_pieces))

\* C10: in Active{rx_frags, ttl_frags} a fragment with part # 0 and
\* (part # rx_frags or ttl_parts # ttl_frags) returns nothing and leaves the
\* reassembler Idle; so when the middle fragment of a three-fragment frame is
\* lost, the third (part 2 while rx_frags = 1) resets the reassembler and the
\* frame is never returned.
C10_Rejection ==
    /\ (/\ last.op = "handle_frag"
        /\ last.pre.tag = "Active"
        /\ last.part # 0
        /\ (last.part # last.pre.rx_frags \/ last.ttl_parts # last.pre.ttl_frags))
       => /\ last.ret = None
          /\ fb_status = Idle
    /\ (/\ last.op = "handle_frag"
        /\ Len(tx_pieces) = 3
        /\ tx_got = {0, 2})
       => /\ last.part = 2
          /\ last.pre.tag = "Active"
          /\ last.pre.rx_frags = 1
          /\ last.ret = None
          /\ fb_status = Idle

\* fragments 0 and 2 of a three-fragment frame arrived, fragment 1 did not
C10_Witness ==
    /\ last.op = "handle_frag"
    /\ Len(tx_pieces) = 3
    /\ tx_got = {0, 2}
    /\ last.pre = Active(Len(tx_pieces[1]), 1, 3)
    /\ fb_status = Idle

\* the last step handed a fragment to a reassembler that was Active and
\* expected exactly this part of this total
MatchingFragment ==
    /\ last.op = "handle_frag"
    /\ last.pre.tag = "Active"
    /\ last.part = last.pre.rx_frags
    /\ last.ttl_parts = last.pre.ttl_frags

\* C11: in Active{position, ..} a matching fragment with
\* position + data.len > 1024 returns nothing and leaves the reassembler
\* Idle; one that ends at or before byte 1024 (exactly 1024 included) is
\* accepted; and the buffer never holds a byte beyond its 1024.
C11_Overflow ==
    /\ Len(fb_data) <= BufSize
    /\ (MatchingFragment /\ last.pre.position + Len(last.data) > BufSize)
       => /\ last.ret = None
          /\ fb_status = Idle
    /\ (MatchingFragment /\ last.pre.position + Len(last.data) <= BufSize)
       => LET end == last.pre.position + Len(last.data) IN
          /\ DataPrefix(fb_data, end)
                 = DataPrefix(fb_data, last.pre.position) \o last.data
          /\ IF last.part + 1 = last.ttl_parts
             THEN /\ last.ret = Some(DataPrefix(fb_data, end))
                  /\ fb_status = Idle
             ELSE /\ last.ret = None
                  /\ fb_status = Active(end, last.part + 1, last.ttl_parts)

\* the second half of a frame arrives behind 512 buffered bytes and is 513
\* bytes long
C11_Witness ==
    /\ MatchingFragment
    /\ last.pre.position = BufSize \div 2
    /\ Len(last.data) = (BufSize \div 2) + 1
    /\ last.ret = None
    /\ fb_status = Idle

\* a fragment that fills the buffer to its last byte is accepted
C11_WitnessExact ==
    /\ MatchingFragment
    /\ last.pre.position + Len(last.data) = BufSize
    /\ last.ret.is_some
    /\ Len(last.ret.val) = BufSize

\* C12: a frame no longer than one chunk is delivered by the receiver with
\* the same bytes, those of the frame, whether it arrives as the single
\* packet Proxy{0, 1} or as the two fragments {0 of 2, 1 of 2} in order.
C12_FastPathEquivalence ==
    (/\ last.op = "receive"
     /\ Len(tx_pieces) \in {1, 2}
     /\ tx_next = Len(tx_pieces)
     /\ tx_got = 0 .. (tx_next - 1)
     /\ TotalLen(tx_pieces) <= ChunkSize)
    => last.ret = Some(Frame(tx_count, TotalLen(tx_pieces)))

\* a frame sent as one packet is delivered while the reassembler holds part
\* of an earlier frame
C12_Witness ==
    /\ last.op = "receive"
    /\ Len(tx_pieces) = 1
    /\ tx_next = 1
    /\ last.pre.tag = "Active"
    /\ last.ret = Some(Frame(tx_count, TotalLen(tx_pieces)))

\* the same frame sent as two fragments is delivered
C12_WitnessTwo ==
    /\ last.op = "receive"
    /\ Len(tx_pieces) = 2
    /\ tx_next = 2
    /\ tx_got = {0, 1}
    /\ last.ret = Some(Frame(tx_count, TotalLen(tx_pieces)))

(***************************************************************************)
(* Properties of the bridge's dispatch                                     *)
(***************************************************************************)
\* the reply to the packet of l, going out on the pipe it came in on with
\* its pid
ReplyTo(l, msg) == Some([pipe |-> l.pipe, pid |-> l.pid, msg |-> msg])

\* C13: an Initialize{serial} read on pipe 0 while the table holds the serial
\* or has an empty slot is answered, on pipe 0 with the packet's pid, by
\* InitializeAck{serial, use_pipe}, serial being the requester's and use_pipe
\* the pipe the table now holds for it; the first node to attach to an empty
\* table is told use_pipe = 1.
C13_HandshakeReply ==
    [][(/\ RxInitializeOnZero(last')
        /\ (\/ Holders(addr_allocs, last'.msg.serial) # {}
            \/ Occupied(addr_allocs) # Slots))
       => /\ pipe_for_serial(addr_allocs', last'.msg.serial).is_some
          /\ last'.reply.is_some
          /\ last'.reply.val.pipe = 0
          /\ last'.reply.val.pid = last'.pid
          /\ last'.reply.val.msg = B2N_InitializeAck(last'.msg.serial,
                 pipe_for_serial(addr_allocs', last'.msg.serial).val)
          /\ (addr_allocs = TableNew => last'.reply.val.msg.use_pipe = 1)]_vars

\* the first node attaches, at time 5 and with a packet of pid 3, to the
\* empty table
C13_Witness ==
    /\ RxInitializeOnZero(last)
    /\ last.pid = 3
    /\ last.reply = ReplyTo(last, B2N_InitializeAck(last.msg.serial, 1))
    /\ Occupied(addr_allocs) = {0}
    /\ addr_allocs[0].val.last_msg = TickSecs

\* some fragment buffer of the bridge holds part of a frame
SomeBufferActive == \E i \in Slots : frag_bufs[i].status.tag = "Active"

\* C14: any message other than Initialize read on pipe 0, and any Initialize
\* read on a pipe n > 0, is answered with Reset and changes neither the pipe
\* table nor any fragment buffer.
C14_Misdirected ==
    [][(/\ last'.op = "rx"
        /\ \/ (last'.pipe = 0 /\ last'.msg.type # "Initialize")
           \/ (last'.pipe # 0 /\ last'.msg.type = "Initialize"))
       => /\ last'.reply = ReplyTo(last', B2N_Reset)
          /\ last'.publish = None
          /\ addr_allocs' = addr_allocs
          /\ frag_bufs' = frag_bufs]_vars

\* a node that is not in the table sends Initialize on pipe 2 while the table
\* has a free slot and a fragment buffer holds part of a frame
C14_Witness ==
    /\ last.op = "rx"
    /\ last.pipe = 2
    /\ last.msg.type = "Initialize"
    /\ Holders(addr_allocs, last.msg.serial) = {}
    /\ Occupied(addr_allocs) = {0}
    /\ SomeBufferActive
    /\ last.reply = ReplyTo(last, B2N_Reset)

\* a Proxy fragment, well formed for the data pipes, arrives on pipe 0
C14_WitnessOther ==
    /\ last.op = "rx"
    /\ last.pipe = 0
    /\ last.msg.type = "Proxy"
    /\ last.msg.part = 0
    /\ last.msg.ttl_parts = 1
    /\ Occupied(addr_allocs) # {}
    /\ last.reply = ReplyTo(last, B2N_Reset)

\* C15: a Keepalive{serial} read on pipe n > 0 is echoed as Keepalive{serial}
\* on pipe n iff update_time(n, serial) succeeded, that is iff slot n is held
\* by that serial, whose last_msg then becomes the time of the call; otherwise
\* the reply is Reset and the table is unchanged.
C15_KeepaliveDispatch ==
    [][(/\ last'.op = "rx"
        /\ last'.pipe # 0
        /\ last'.msg.type = "Keepalive")
       => LET n == last'.pipe
              s == last'.msg.serial
              held == addr_allocs[n - 1].is_some /\ addr_allocs[n - 1].val.serial = s
          IN /\ held = update_time(addr_allocs, n, s, now).ret
             /\ last'.publish = None
             /\ frag_bufs' = frag_bufs
             /\ IF held
                THEN /\ last'.reply = ReplyTo(last', B2N_Keepalive(s))
                     /\ addr_allocs' =
                            [addr_allocs EXCEPT ![n - 1] = Some(Element(s, now))]
                ELSE /\ last'.reply = ReplyTo(last', B2N_Reset)
                     /\ addr_allocs' = addr_allocs]_vars

\* the node on pipe 2 is echoed its Keepalive, which refreshes a slot that
\* was written earlier
C15_Witness ==
    /\ last.op = "rx"
    /\ last.pipe = 2
    /\ last.msg.type = "Keepalive"
    /\ last.reply = ReplyTo(last, B2N_Keepalive(last.msg.serial))
    /\ addr_allocs[1].val.last_msg = now
    /\ addr_allocs[0].val.last_msg < now

\* the node on pipe 1 sends its Keepalive on pipe 2, which another node holds
C15_WitnessReset ==
    /\ last.op = "rx"
    /\ last.pipe = 2
    /\ last.msg.type = "Keepalive"
    /\ last.msg.serial = 0
    /\ addr_allocs[1].is_some
    /\ last.reply = ReplyTo(last, B2N_Reset)

\* the frame a node on pipe n sends in ttl_parts fragments
DFrame(n, ttl_parts) == [i \in 1 .. ttl_parts |-> DRemain(n, i - 1, ttl_parts)[1]]

\* the Proxy packet of l completes a frame on its pipe: the pipe is held by a
\* node and the packet is a whole frame, or it is the second of two
\* fragments and the first is what the pipe's buffer holds
CompletesFrame(l, tbl, bufs) ==
    /\ serial_for_pipe(tbl, l.pipe).is_some
    /\ \/ (l.msg.part = 0 /\ l.msg.ttl_parts = 1)
       \/ /\ l.msg.part = 1
          /\ l.msg.ttl_parts = 2
          /\ bufs[l.pipe - 1].status = Active(1, 1, 2)

\* C16: for the Proxy fragments read on a pipe n > 0 the bridge publishes one
\* ProxyMessage when a fragment completes a frame, its serial being
\* serial_for_pipe(n) and its msg the bytes of the frame's fragments in
\* order, and publishes nothing for any other fragment.
C16_Forwarding ==
    [][(/\ last'.op = "rx"
        /\ last'.pipe # 0
        /\ last'.msg.type = "Proxy")
       => /\ addr_allocs' = addr_allocs
          /\ \A i \in Slots \ {last'.pipe - 1} : frag_bufs'[i] = frag_bufs[i]
          /\ IF CompletesFrame(last', addr_allocs, frag_bufs)
             THEN last'.publish = Some(ProxyMessage(
                      serial_for_pipe(addr_allocs, last'.pipe).val,
                      DFrame(last'.pipe, last'.msg.ttl_parts)))
             ELSE last'.publish = None]_vars

\* the second fragment of a frame arrives on pipe 2 while the buffer of pipe 1
\* holds the first fragment of another node's frame
C16_Witness ==
    /\ last.op = "rx"
    /\ last.pipe = 2
    /\ last.msg.type = "Proxy"
    /\ last.msg.part = 1
    /\ last.publish = Some(ProxyMessage(1, DFrame(2, 2)))
    /\ frag_bufs[0].status = Active(1, 1, 2)
    /\ frag_bufs[1].status = Idle

\* C17 as claimed: no reply goes out for a Proxy packet read on a pipe n > 0,
\* and a Nop read on a pipe n > 0 gets no reply and changes nothing.
C17_NoReplyAnyPipe ==
    [][(/\ last'.op = "rx"
        /\ last'.pipe # 0
        /\ last'.msg.type \in {"Proxy", "Nop"})
       => /\ last'.reply = None
          /\ last'.msg.type = "Nop" =>
                /\ last'.publish = None
                /\ addr_allocs' = addr_allocs
                /\ frag_bufs' = frag_bufs]_vars

\* C17, amended: no reply goes out for a Proxy packet read on a pipe n > 0
\* that the table has allocated to a node; on a pipe n > 0 that holds no
\* serial the Proxy packet is answered with Reset, and nothing is buffered or
\* published; a Nop read on a pipe n > 0 gets no reply and changes nothing.
C17_NoReply ==
    [][(/\ last'.op = "rx"
        /\ last'.pipe # 0
        /\ last'.msg.type \in {"Proxy", "Nop"})
       => IF last'.msg.type = "Nop"
          THEN /\ last'.reply = None
               /\ last'.publish = None
               /\ addr_allocs' = addr_allocs
               /\ frag_bufs' = frag_bufs
          ELSE IF addr_allocs[last'.pipe - 1].is_some
          THEN last'.reply = None
          ELSE /\ last'.reply = ReplyTo(last', B2N_Reset)
               /\ last'.publish = None
               /\ addr_allocs' = addr_allocs
               /\ frag_bufs' = frag_bufs]_vars

\* a whole frame arrives in one Proxy packet on pipe 2, which no node holds
C17_Witness ==
    /\ last.op = "rx"
    /\ last.pipe = 2
    /\ last.msg.type = "Proxy"
    /\ last.msg.part = 0
    /\ last.msg.ttl_parts = 1
    /\ Occupied(addr_allocs) = {0}
    /\ last.reply = ReplyTo(last, B2N_Reset)

\* a frame completes on a pipe that a node holds, and no reply goes out
C17_WitnessHeld ==
    /\ last.op = "rx"
    /\ last.pipe # 0
    /\ last.msg.type = "Proxy"
    /\ last.publish.is_some
    /\ last.reply = None

(***************************************************************************)
(* Properties of the host-to-node path                                     *)
(***************************************************************************)
\* C18: a host request returns Err(UnknownDevice) exactly when no slot of the
\* table holds the requested serial at the moment of the lookup; in that case
\* nothing is committed to the radio, the table is unchanged and the handler
\* is through with the request (no retry).  A request whose serial holds a
\* slot goes on to its chunks and, when it returns, returns Ok.
C18_UnknownNode ==
    [][/\ (h_req.pc = "idle" /\ last'.op \in {"lookup", "return"}) =>
            LET absent == Holders(addr_allocs, last'.serial) = {} IN
            /\ absent <=> (last'.op = "return" /\ last'.result = ProxyErrUnknownDevice)
            /\ absent => /\ b2n_queue' = b2n_queue
                         /\ addr_allocs' = addr_allocs
                         /\ h_req'.pc = "idle"
                         /\ last'.sent = 0
            /\ ~absent => /\ h_req'.pc = "send"
                          /\ h_req'.serial = last'.serial
       /\ (h_req.pc = "send" /\ last'.op = "return") =>
            /\ last'.result = ProxyOk
            /\ last'.serial = h_req.serial
      ]_vars

\* a request to a serial that holds no slot, while another node is attached,
\* has returned Err(UnknownDevice)
C18_Witness ==
    /\ last.op = "return"
    /\ last.result = ProxyErrUnknownDevice
    /\ last.serial = 1
    /\ Holders(addr_allocs, 0) # {}
    /\ Holders(addr_allocs, 1) = {}
    /\ b2n_queue = << >>

\* a request to an attached serial has returned Ok
C18_WitnessKnown ==
    /\ last.op = "return"
    /\ last.result = ProxyOk
    /\ Holders(addr_allocs, last.serial) # {}
    /\ last.sent >= 1


\* the least number of chunks of ChunkSize bytes that hold len bytes
CeilChunks(len) == CHOOSE n \in 0 .. len : ChunkSize * n >= len /\ \A m \in 0 .. (n - 1) : ChunkSize * m < len

\* msg[from .. to), counting from 0
Slice(msg, from, to) == [j \in 1 .. (to - from) |-> msg[from + j]]

\* got tells that the node has taken parts 0 .. n-1 of request req, in this
\* order, since it last took a part 0
AllDelivered(got, req, n) == got = {<<req, p>> : p \in 0 .. (n - 1)}

\* C19: for a request of 1..1024 bytes to an attached serial the bridge
\* commits, in order and all on the pipe of the serial, exactly ceil(len/128)
\* frames Proxy{part = i, ttl_parts = ceil(len/128)} carrying
\* msg[128 i .. min(128 (i + 1), len)), and returns Ok after the last; when the
\* node has taken all of them in order, its receive returns exactly msg.
C19_FragmentedRequest ==
    [][/\ (h_req.pc = "send" /\ h_req.len >= 1 /\ last'.op = "send_chunk") =>
            LET n == CeilChunks(h_req.len)
                i == h_req.i
                msg == HostMsg(h_req.req, h_req.len)
                to == IF ChunkSize * (i + 1) < h_req.len THEN ChunkSize * (i + 1) ELSE h_req.len
            IN
            /\ i < n
            /\ Len(b2n_queue') = Len(b2n_queue) + 1
            /\ SubSeq(b2n_queue', 1, Len(b2n_queue)) = b2n_queue
            /\ LET pkt == b2n_queue'[Len(b2n_queue')] IN
               /\ pkt.msg = [type |-> "Proxy", part |-> i, ttl_parts |-> n]
               /\ pkt.remain = Slice(msg, ChunkSize * i, to)
               /\ Holders(addr_allocs, h_req.serial) # {}
               /\ Some(pkt.pipe) = pipe_for_serial(addr_allocs, h_req.serial)
            /\ h_req'.i = i + 1
       /\ (h_req.pc = "send" /\ h_req.len >= 1 /\ last'.op = "return") =>
            /\ last'.result = ProxyOk
            /\ h_req.i = CeilChunks(h_req.len)
            /\ b2n_queue' = b2n_queue
       /\ (h_req.pc = "send" /\ h_req.len >= 1 /\ h_req.i = CeilChunks(h_req.len)) =>
            last'.op = "return"
       /\ (/\ last'.op = "node_rx"
           /\ last'.mine
           /\ last'.len >= 1
           /\ last'.part = last'.ttl_parts - 1
           /\ AllDelivered(tx_got', last'.req, last'.ttl_parts)) =>
            last'.ret = Some(HostMsg(last'.req, last'.len))
      ]_vars

\* the 300 bytes of a request went out as parts 0, 1, 2 of 3 with 128, 128 and
\* 44 bytes, and the handler has returned Ok
C19_Witness ==
    /\ last.op = "return"
    /\ last.result = ProxyOk
    /\ last.len = 300
    /\ last.sent = 3
    /\ Len(b2n_queue) = 3
    /\ \A k \in 1 .. 3 : b2n_queue[k].msg = B2N_Proxy(k - 1, 3)
    /\ <<Len(b2n_queue[1].remain), Len(b2n_queue[2].remain), Len(b2n_queue[3].remain)>>
           = <<128, 128, 44>>

\* the node has put the 300 bytes together again
C19_WitnessNode ==
    /\ last.op = "node_rx"
    /\ last.len = 300
    /\ last.part = 2
    /\ last.ret = Some(HostMsg(last.req, 300))

\* the node has put together a request of 1024 bytes, the second one after a
\* request that lost a packet
C19_WitnessFull ==
    /\ last.op = "node_rx"
    /\ last.len = BufSize
    /\ last.part = 7
    /\ last.req = 2
    /\ lost = 1
    /\ last.ret = Some(HostMsg(2, BufSize))

\* C20: a radio send error while a chunk of a host request is transmitted ends
\* the operation with Err(UnknownDevice) returned to the caller; the fragments
\* already committed stay in the radio queue and the bridge keeps running.
C20_SendFailure ==
    last.op = "send_error" =>
        /\ ~panicked
        /\ h_req.pc = "idle"
        /\ last.returned = Some(ProxyErrUnknownDevice)
        /\ Len(b2n_queue) = last.sent
        /\ \A k \in 1 .. Len(b2n_queue) : b2n_queue[k].of_req = last.req

\* the radio queue refused the grant for a later chunk of a request: the
\* chunks before it are committed, the firmware has panicked and the caller
\* has no result
C20_Witness ==
    /\ last.op = "send_error"
    /\ last.sent >= 1
    /\ Len(b2n_queue) = last.sent
    /\ panicked
    /\ last.returned = None

(***************************************************************************)
(* Properties of the node firmware                                         *)
(***************************************************************************)
\* the response is an InitializeAck for this node's serial
AcksThisNode(r) ==
    /\ r.kind = "msg"
    /\ r.msg.type = "InitializeAck"
    /\ r.msg.serial = NodeSerial

\* C21: the node leaves get_pipe only on a packet that parses as
\* InitializeAck with its own serial, and then uses exactly that message's
\* use_pipe; any other response (InitializeAck for another serial, Keepalive,
\* Proxy, Reset, unparsable) or the timeout leaves it unattached, and the next
\* thing it does is send Initialize{serial} on pipe 0 with the next pid of the
\* cycle 0, 1, 2, 3 (pid 0 after a start of the firmware).
C21_AttachLoop ==
    [][/\ (n_pc # "steady" /\ n_pc' = "steady") =>
            /\ last'.op = "get_pipe_rx"
            /\ AcksThisNode(last'.resp)
            /\ esb_rx' = Some([serial |-> NodeSerial, pipe |-> last'.resp.msg.use_pipe])
       /\ last'.op = "get_pipe_rx" =>
            IF AcksThisNode(last'.resp)
            THEN n_pc' = "steady"
            ELSE /\ n_pc' = "get_pipe"
                 /\ esb_rx' = None
       /\ n_pc = "get_pipe" =>
            /\ last'.op = "get_pipe_tx"
            /\ n_pc' = "wait_ack"
            /\ last'.pkt.pipe = 0
            /\ last'.pkt.msg = [type |-> "Initialize", serial |-> NodeSerial]
            /\ last'.pkt.pid = IF last.op = "get_pipe_rx"
                               THEN CHOOSE q \in 0 .. 3 :
                                        <<last.sent_pid, q>> \in {<<0, 1>>, <<1, 2>>, <<2, 3>>, <<3, 0>>}
                               ELSE 0
      ]_vars

\* the fourth Initialize in a row, the one with pid 3, has run into the
\* timeout: the node is still in get_pipe, unattached
C21_Witness ==
    /\ last.op = "get_pipe_rx"
    /\ last.resp = [kind |-> "timeout"]
    /\ last.sent_pid = 3
    /\ n_pc = "get_pipe"
    /\ ~esb_rx.is_some

\* the node has adopted pipe 2 from its InitializeAck
C21_WitnessAdopt ==
    /\ last.op = "get_pipe_rx"
    /\ last.resp = [kind |-> "msg", msg |-> B2N_InitializeAck(NodeSerial, 2)]
    /\ last.sent_pid = 3
    /\ n_pc = "steady"
    /\ esb_rx = Some([serial |-> NodeSerial, pipe |-> 2])

\* an InitializeAck for another serial has left the node in get_pipe
C21_WitnessOther ==
    /\ last.op = "get_pipe_rx"
    /\ last.resp = [kind |-> "msg", msg |-> B2N_InitializeAck(OtherSerial, 1)]
    /\ n_pc = "get_pipe"
    /\ ~esb_rx.is_some

\* C22: once attached, every packet the node transmits (Keepalive, Nop, Proxy
\* fragments) goes out on the adopted pipe; a packet received on any other
\* pipe is discarded without any effect; and the node's pipe does not change
\* until the firmware restarts.
C22_SinglePipe ==
    [][/\ last'.op \in {"tick", "send_chunk"} =>
            /\ esb_rx.is_some
            /\ last'.pkt.pipe = esb_rx.val.pipe
            /\ last'.pkt.msg.type \in {"Keepalive", "Nop", "Proxy"}
       /\ (last'.op = "rx" /\ last'.pkt.pipe # esb_rx.val.pipe) =>
            /\ ~last'.panics
            /\ ~last'.ret.is_some
            /\ UNCHANGED <<fb_data, fb_status, esb_rx, nodeVars>>
       /\ esb_rx.is_some =>
            \/ esb_rx' = esb_rx
            \/ /\ last'.op = "rx"
               /\ last'.panics
               /\ ~esb_rx'.is_some
               /\ n_pc' = "get_pipe"
      ]_vars

\* a Keepalive has gone out on pipe 2, the pipe adopted
C22_Witness ==
    /\ last.op = "tick"
    /\ last.pkt.msg = N2B_Keepalive(NodeSerial)
    /\ last.pkt.pipe = 2
    /\ esb_rx = Some([serial |-> NodeSerial, pipe |-> 2])

\* a Reset on pipe 2 has been discarded by the node on pipe 1 while a frame
\* was partially buffered
C22_WitnessOtherPipe ==
    /\ last.op = "rx"
    /\ last.pkt = [pipe |-> 2, kind |-> "msg", msg |-> B2N_Reset]
    /\ esb_rx = Some([serial |-> NodeSerial, pipe |-> 1])
    /\ fb_status.tag = "Active"
    /\ n_pc = "steady"

\* the second fragment of a frame has gone out on the adopted pipe
C22_WitnessProxy ==
    /\ last.op = "send_chunk"
    /\ last.pkt.msg.type = "Proxy"
    /\ last.pkt.msg.part = 1
    /\ last.pkt.pipe = esb_rx.val.pipe

\* C23: in steady state every turn of the keepalive task comes TickMs after
\* the one before and sends exactly one packet on the node's pipe: a
\* Keepalive{serial} if at least 3 s have passed since last_ka (the instant
\* the last Keepalive was sent, or the start of the task after attach),
\* otherwise a Nop.  So two Keepalives in a row are at least 3 s apart, and no
\* tick at which 3 s have passed goes by with a Nop.
C23_KeepaliveTicker ==
    [][last'.op = "tick" =>
        /\ n_now' = n_now + 100
        /\ last'.at = n_now'
        /\ last'.pkt.pipe = esb_rx.val.pipe
        /\ last'.pkt.pid = n_pid % 4
        /\ n_pid' = (n_pid + 1) % 256
        /\ IF n_now' - last_ka >= 3000
           THEN /\ last'.pkt.msg = [type |-> "Keepalive", serial |-> esb_rx.val.serial]
                /\ last_ka' >= n_now'
                /\ last_ka' - last_ka >= 3000
           ELSE /\ last'.pkt.msg = [type |-> "Nop"]
                /\ last_ka' = last_ka
      ]_vars

\* the second Keepalive of a session goes out at 6100 ms: the first one was
\* sent at 3040 ms, and the tick at 6000 ms came 2960 ms after it
C23_Witness ==
    /\ last.op = "tick"
    /\ last.pkt.msg.type = "Keepalive"
    /\ last.at = 6100
    /\ last.ka = 3040

\* the tick at 6000 ms has sent a Nop
C23_WitnessNop ==
    /\ last.op = "tick"
    /\ last.pkt.msg.type = "Nop"
    /\ last.at = 6000
    /\ last.ka = 3040

\* the first Keepalive of a session goes out at 3000 ms
C23_WitnessFirst ==
    /\ last.op = "tick"
    /\ last.pkt.msg.type = "Keepalive"
    /\ last.at = 3000
    /\ last.ka = 0

C24_WitnessKeepalive ==
    /\ last.op = "rx"
    /\ last.pkt = [pipe |-> 1, kind |-> "msg", msg |-> B2N_Keepalive(OtherSerial)]
    /\ last.panics
    /\ n_pc = "get_pipe"

\* a frame is delivered to the RPC server by a node that has sent nothing
\* since it attached
C24_WitnessAgain ==
    /\ last.op = "rx"
    /\ last.ret.is_some
    /\ n_pc = "steady"
    /\ tx_count = 0
    /\ n_now = 0
    /\ n_pid = 0
    /\ fb_data # << >>

(***************************************************************************)
(* Properties of the table ticker                                          *)
(***************************************************************************)
\* the serials the table holds
HeldSerials(tbl) == {tbl[i].val.serial : i \in {j \in Slots : tbl[j].is_some}}
\* the serials a published table lists
Listed(sers) == {sers[k] : k \in 1 .. Len(sers)}

\* C25: a slot stays in the table through every step that is not a table
\* tick and through every tick that runs less than 30 s after the slot's
\* last_msg, and is removed by a tick that runs 30 s or more after it.  While
\* no slot holds a serial, a host request for it returns UnknownDevice, and a
\* published table lists exactly the serials the table holds.
C25_CullScenario ==
    [][/\ \A i \in Slots :
            addr_allocs[i].is_some =>
                IF last'.op = "table_tick" /\ now - addr_allocs[i].val.last_msg >= 30
                THEN addr_allocs'[i] = None
                ELSE /\ addr_allocs'[i].is_some
                     /\ addr_allocs'[i].val.serial = addr_allocs[i].val.serial
                     /\ addr_allocs'[i].val.last_msg >= addr_allocs[i].val.last_msg
       /\ last'.op = "lookup" =>
            (last'.ret = [ok |-> FALSE, err |-> "UnknownDevice"]
                <=> last'.serial \notin HeldSerials(addr_allocs))
       /\ last'.op = "publish" => Listed(last'.table) = HeldSerials(addr_allocs)
       /\ last'.op = "table_tick" => now' = now /\ now \in {next_tick, next_tick + 1}
      ]_vars

\* node 0, last heard of in second 5, has been kept by the ticks up to second
\* 31 and is removed by the tick of second 35; node 1 stays
C25_Witness ==
    /\ last.op = "table_tick"
    /\ now = 35
    /\ last.pre[0] = Some(Element(0, 5))
    /\ last.pre[1].is_some
    /\ addr_allocs[0] = None
    /\ addr_allocs[1] = last.pre[1]

\* the tick that runs 29 s after node 0 was last heard of keeps its slot
C25_WitnessKept ==
    /\ last.op = "table_tick"
    /\ now = 31
    /\ last.pre[0] = Some(Element(0, 2))
    /\ addr_allocs[0] = last.pre[0]

\* after the cull a host request for node 0 returns UnknownDevice
C25_WitnessUnknown ==
    /\ last.op = "lookup"
    /\ last.serial = 0
    /\ last.ret = ProxyErrUnknownDevice
    /\ now >= 30
    /\ addr_allocs[0] = None
    /\ addr_allocs[1].is_some

\* after the cull the published table lists node 1 only
C25_WitnessPublished ==
    /\ last.op = "publish"
    /\ last.table = <<1>>
    /\ now >= 30

\* the serials of the occupied slots, in slot order
RECURSIVE SerialsFrom(_, _)
SerialsFrom(tbl, i) ==
    IF i = NumPipes THEN << >>
    ELSE (IF tbl[i].is_some THEN <<tbl[i].val.serial>> ELSE << >>) \o SerialsFrom(tbl, i + 1)

\* C27: the table tick culls and takes its snapshot in one step under the
\* table's lock: the snapshot is the table as the cull left it, so it lists
\* no serial whose slot was 30 s or more past its last_msg when the tick ran.
\* Between the snapshot and its publication the bridge handles no packet, so
\* nothing allocates a slot or refreshes one, and what is published is the
\* snapshot, which still equals the table; the lock is free meanwhile, and
\* host lookups go on.
C27_TickAtomicity ==
    [][/\ last'.op = "table_tick" =>
            /\ ~tout.is_some
            /\ tout' = [is_some |-> TRUE, val |-> SerialsFrom(addr_allocs', 0)]
            /\ \A i \in Slots :
                 (addr_allocs[i].is_some /\ now - addr_allocs[i].val.last_msg >= 30)
                    => addr_allocs[i].val.serial \notin Listed(tout'.val)
            /\ \A s \in Listed(tout'.val) :
                 \E i \in Slots : /\ addr_allocs[i] = addr_allocs'[i]
                                  /\ addr_allocs[i].is_some
                                  /\ addr_allocs[i].val.serial = s
                                  /\ now - addr_allocs[i].val.last_msg < 30
       /\ tout.is_some =>
            /\ addr_allocs' = addr_allocs
            /\ last'.op \in {"publish", "lookup", "advance"}
            /\ tout.val = SerialsFrom(addr_allocs, 0)
       /\ last'.op = "publish" =>
            /\ tout.is_some
            /\ last'.table = tout.val
            /\ last'.table = SerialsFrom(addr_allocs', 0)
            /\ tout' = [is_some |-> FALSE]
      ]_vars

\* the tick has culled node 1 from slot 0 and its snapshot, not yet
\* published, lists node 0 alone
C27_Witness ==
    /\ last.op = "table_tick"
    /\ last.pre[0].is_some
    /\ last.pre[0].val.serial = 1
    /\ last.pre[1].is_some
    /\ addr_allocs[0] = None
    /\ tout = Some(<<0>>)

\* the host has looked a serial up between the snapshot and its publication
C27_WitnessLookup ==
    /\ last.op = "lookup"
    /\ tout.is_some
    /\ Len(tout.val) = 1
    /\ now >= 30

\* a snapshot of two serials has been published
C27_WitnessPublish ==
    /\ last.op = "publish"
    /\ Len(last.table) = 2
    /\ ~tout.is_some

(***************************************************************************)
(* Properties of a node and the bridge together                            *)
(***************************************************************************)
\* the node, still in steady state, has a Keepalive on its way to the bridge
\* and no slot of the table holds its serial
KeepaliveAfterCull ==
    /\ n_pc = "steady"
    /\ n2b_queue # << >>
    /\ Head(n2b_queue).msg = [type |-> "Keepalive", serial |-> 0]
    /\ \A i \in Slots : addr_allocs[i].is_some => addr_allocs[i].val.serial # 0
\* a slot of the table holds the node's serial
Readmitted == \E i \in Slots : addr_allocs[i].is_some /\ addr_allocs[i].val.serial = 0
\* the bridge has just answered the node's Initialize with Reset while other
\* nodes held all seven slots
RefusedFull ==
    /\ last.op = "rx"
    /\ last.pipe = 0
    /\ last.msg = [type |-> "Initialize", serial |-> 0]
    /\ last.reply = [is_some |-> TRUE, val |-> [type |-> "Reset"]]
    /\ \A i \in Slots : addr_allocs[i].is_some /\ addr_allocs[i].val.serial # 0

C26_WitnessReset ==
    /\ last.op = "rx"
    /\ last.msg = N2B_Keepalive(NodeSerial)
    /\ last.reply = Some(B2N_Reset)
    /\ n_pc = "steady"
    /\ ~Holds(addr_allocs, NodeSerial)

\* the culled node's Initialize has been refused by a full table
C26_WitnessFull ==
    /\ RefusedFull
    /\ n_pc = "wait_ack"

(***************************************************************************)
(* Properties of the receive path of Proxy packets                         *)
(***************************************************************************)
\* the last step handled a Proxy packet with these numbers on a pipe that
\* holds a serial
ProxyHandled(part, ttl_parts) ==
    /\ last'.op = "rx"
    /\ last'.msg.type = "Proxy"
    /\ last'.msg.part = part
    /\ last'.msg.ttl_parts = ttl_parts
    /\ last'.pipe \in 1 .. 7
    /\ addr_allocs[last'.pipe - 1].is_some

\* C28: when the reassembler of a pipe is Active and the next Proxy packet on
\* that pipe is the single-packet frame (part 0 of 1), the reassembler is not
\* Active afterwards.
C28_SingleFrameResets ==
    [][(ProxyHandled(0, 1) /\ frag_bufs[last'.pipe - 1].status.tag = "Active")
          => frag_bufs'[last'.pipe - 1].status.tag # "Active"
      ]_vars

\* a single-packet frame has been forwarded on pipe 1 and the reassembler of
\* the pipe still holds the first fragment of an earlier frame
C28_Witness ==
    /\ last.op = "rx"
    /\ last.pipe = 1
    /\ last.msg.type = "Proxy"
    /\ last.msg.part = 0
    /\ last.msg.ttl_parts = 1
    /\ last.publish.is_some
    /\ frag_bufs[0].status = [tag |-> "Active", position |-> 1, rx_frags |-> 1, ttl_frags |-> 2]

\* C29: a Proxy packet with ttl_parts = 0 read on a pipe that holds a serial
\* is dropped, nothing is published, and the reassembler of the pipe is Idle
\* afterwards.
C29_MalformedTotal ==
    [][\A part \in 0 .. 1 :
          ProxyHandled(part, 0)
            => /\ ~last'.publish.is_some
               /\ frag_bufs'[last'.pipe - 1].status.tag = "Idle"
      ]_vars

\* a Proxy packet with ttl_parts = 0 has been dropped on pipe 1 and the
\* reassembler of the pipe still holds the first fragment of a frame
C29_Witness ==
    /\ last.op = "rx"
    /\ last.pipe = 1
    /\ last.msg.type = "Proxy"
    /\ last.msg.ttl_parts = 0
    /\ ~last.publish.is_some
    /\ ~last.reply.is_some
    /\ frag_bufs[0].status.tag = "Active"

(***************************************************************************)
(* Properties of the reassembler under a free caller                       *)
(***************************************************************************)
RECURSIVE SumOfLengths(_)
SumOfLengths(ps) == IF ps = << >> THEN 0 ELSE Len(ps[1]) + SumOfLengths(Tail(ps))

\* C30: whenever the status is Active, ttl_frags >= 1, 1 <= rx_frags <=
\* ttl_frags, and position is the sum of the lengths of the fragments taken
\* for the frame in the buffer; and the firmware has not panicked in
\* `part + 1`.
C30_FragBufInvariant ==
    /\ ~panicked
    /\ fb_status.tag = "Active" =>
         /\ fb_status.ttl_frags >= 1
         /\ 1 <= fb_status.rx_frags
         /\ fb_status.rx_frags <= fb_status.ttl_frags
         /\ fb_status.position = SumOfLengths(tx_pieces)

\* after parts 0 .. 255 of a frame of one part, the count of fragments has
\* wrapped to 0
C30_Witness ==
    /\ last.op = "handle_frag"
    /\ last.part = 255
    /\ last.ttl_parts = 1
    /\ last.pre = [tag |-> "Active", position |-> 1, rx_frags |-> 255, ttl_frags |-> 1]
    /\ fb_status = [tag |-> "Active", position |-> 1, rx_frags |-> 0, ttl_frags |-> 1]

\* the second fragment of a frame of one part has been taken
C30_WitnessTwoOfOne ==
    /\ last.op = "handle_frag"
    /\ last.part = 1
    /\ last.ttl_parts = 1
    /\ fb_status.tag = "Active"
    /\ fb_status.rx_frags = 2
    /\ fb_status.ttl_frags = 1
    /\ fb_status.position = SumOfLengths(tx_pieces)

\* part + 1 has panicked on part 255
C30_WitnessPanic ==
    /\ panicked
    /\ last.op = "handle_frag_panic"
    /\ last.part = 255

(***************************************************************************)
(* Properties of the reading of raw payloads                               *)
(***************************************************************************)
\* the payload has no header, or a header with another key than key, or a
\* body that does not read
Foreign(key, data) ==
    \/ ~data.hdr
    \/ data.key # key
    \/ ~data.body.is_some

\* C31: a payload read from the radio whose header key is not the key of
\* the expected direction (N2B on the bridge, B2N on the node), or whose
\* header or body does not deserialize, is dropped: the bridge sends no
\* reply, publishes nothing and leaves the table and the fragment buffers
\* as they were; the node in steady state does not panic, returns no frame
\* and keeps its reassembler and its session; get_pipe stays in its loop.
C31_SilentDrop ==
    [][/\ (last'.op = "bridge_rx" /\ Foreign(N2BKey, last'.data)) =>
            /\ last'.reply = None
            /\ last'.publish = None
            /\ UNCHANGED <<addr_allocs, frag_bufs, b2n_queue, now, next_tick>>
       /\ (last'.op = "rx" /\ Foreign(B2NKey, last'.pkt.data)) =>
            /\ ~last'.panics
            /\ last'.ret = None
            /\ UNCHANGED <<fb_data, fb_status, esb_rx, nodeVars>>
       /\ (last'.op = "get_pipe_rx" /\ Foreign(B2NKey, last'.resp.data)) =>
            /\ n_pc' = "get_pipe"
            /\ UNCHANGED <<fb_data, fb_status, esb_rx, pids, n_pid>>
      ]_vars

\* while pipe 1 holds a partial frame of the node, the bridge has dropped a
\* payload on pipe 1 that carries the B2N key and bytes that read as the
\* second fragment
C31_Witness ==
    /\ last.op = "bridge_rx"
    /\ last.pipe = 1
    /\ last.data = Payload(TRUE, B2NKey, Some(N2B_Proxy(1, 2, <<2>>)))
    /\ addr_allocs[0] = Some(Element(NodeSerial, 0))
    /\ frag_bufs[0].status = Active(1, 1, 2)
    /\ last.reply = None

\* the node, in steady state with a partial frame, has dropped a payload on
\* its pipe that carries the N2B key and bytes that read as a Reset
C31_WitnessNode ==
    /\ last.op = "rx"
    /\ last.pkt.pipe = 1
    /\ last.pkt.data = Payload(TRUE, N2BKey, Some(B2N_Reset))
    /\ n_pc = "steady"
    /\ esb_rx = Some([serial |-> NodeSerial, pipe |-> 1])
    /\ fb_status.tag = "Active"

\* get_pipe has dropped a payload whose body does not read
C31_WitnessGetPipe ==
    /\ last.op = "get_pipe_rx"
    /\ last.resp.data = Payload(TRUE, B2NKey, None)
    /\ n_pc = "get_pipe"

\* the bridge has dropped an Initialize under the key of another topic
C31_WitnessInitialize ==
    /\ last.op = "bridge_rx"
    /\ last.pipe = 0
    /\ last.data = Payload(TRUE, OtherKey, Some(N2B_Initialize(NodeSerial)))
    /\ Holders(addr_allocs, NodeSerial) = {}

(***************************************************************************)
(* Properties of the bridge's tasks and their mutexes                      *)
(***************************************************************************)
Tasks == {RadioPrx, ProxyHandler}
PcOf(t) == IF t = RadioPrx THEN b_task.pc ELSE h_req.pc
\* the mutex the task waits for, if it waits for one
WaitsFor(t) ==
    IF PcOf(t) = "table_wait" THEN "table"
    ELSE IF PcOf(t) = "sender_wait" THEN "sender"
    ELSE "none"

\* C32: a task that holds the table mutex is inside the block of one table
\* operation (or of cull and snapshot): it is not waiting for the
\* radio-sender mutex, for a TX grant or for a publish to the host, and its
\* next step drops the guard; no task holds the table mutex and the
\* radio-sender mutex at once; and a task that waits for a mutex waits for a
\* holder that is not itself waiting for a mutex, so the two tasks cannot
\* deadlock on the two mutexes.
C32_LockDiscipline ==
    /\ [](\A t \in Tasks :
            /\ locks.table = t => PcOf(t) \notin {"sender_wait", "grant", "publish",
                                                 "table_wait", "select", "idle"}
            /\ ~(locks.table = t /\ locks.sender = t)
            /\ (WaitsFor(t) # "none" /\ locks[WaitsFor(t)] # Free) =>
                 /\ locks[WaitsFor(t)] # t
                 /\ WaitsFor(locks[WaitsFor(t)]) = "none")
    /\ [][/\ (locks.table = RadioPrx /\ b_task' # b_task) => locks'.table = Free
          /\ (locks.table = ProxyHandler /\ h_req' # h_req) => locks'.table = Free
         ]_vars

\* proxy_handler holds the radio sender and awaits its grant for the second
\* chunk while radio_prx, the table mutex released, waits for the sender to
\* send an InitializeAck
C32_Witness ==
    /\ locks = [table |-> Free, sender |-> ProxyHandler]
    /\ h_req.pc = "grant"
    /\ h_req.i = 1
    /\ b_task.pc = "sender_wait"
    /\ b_task.reply = B2N_InitializeAck(1, 2)

\* radio_prx holds the table mutex for cull and snapshot while proxy_handler
\* waits for it
C32_WitnessTable ==
    /\ locks = [table |-> RadioPrx, sender |-> Free]
    /\ b_task.pc = "table_locked"
    /\ b_task.for = "tick"
    /\ h_req.pc = "table_wait"

(***************************************************************************)
(* Properties of two nodes and the bridge while pipes change owner         *)
(***************************************************************************)
\* the node that sent a payload byte
SenderOf(byte) == byte \div 16

\* C33: every ProxyMessage{serial = s, msg} the bridge publishes consists
\* only of bytes of fragments that the node of serial s transmitted, also
\* when a culled node goes on sending fragments on its old pipe after the
\* pipe was allocated to another serial, and when a partial frame is in the
\* pipe's fragment buffer while the pipe changes owner.
C33_Attribution ==
    [][(last'.op = "rx" /\ last'.publish.is_some) =>
          \A i \in 1 .. Len(last'.publish.val.msg) :
              SenderOf(last'.publish.val.msg[i]) = last'.publish.val.serial
      ]_vars

\* node 0, culled, has sent a frame of one part on pipe 1, which node 1 now
\* holds, and the bridge has published it under serial 1
C33_Witness ==
    /\ last.op = "rx"
    /\ last.node = 0
    /\ last.pipe = 1
    /\ addr_allocs[0].is_some
    /\ addr_allocs[0].val.serial = 1
    /\ last.publish = Some(ProxyMessage(1, OwnerRemain(0, 0)))

\* the first fragment of node 0 was in the buffer of pipe 1 when node 1 took
\* the pipe; the second fragment of node 1 has completed it, and the bridge
\* has published the two together under serial 1
C33_WitnessSplice ==
    /\ last.op = "rx"
    /\ last.node = 1
    /\ last.pipe = 1
    /\ last.publish = Some(ProxyMessage(1, OwnerRemain(0, 0) \o OwnerRemain(1, 1)))

\* a frame of node 1 has been published under serial 1
C33_WitnessOwn ==
    /\ last.op = "rx"
    /\ last.node = 1
    /\ last.publish = Some(ProxyMessage(1, OwnerRemain(1, 0) \o OwnerRemain(1, 1)))

(***************************************************************************)
(* Properties of the reassembler under loss                                *)
(***************************************************************************)
\* C34: the sender emits whole frames as runs of fragments in order, and the
\* channel drops any of them but neither reorders nor corrupts them; every
\* frame the reassembler reports as complete, or the receive path forwards,
\* is then byte for byte the frame the sender is emitting (which is the only
\* frame of the sender that ends with the fragment just taken): fragments of
\* two frames are never joined into one delivered frame.
C34_FrameIntegrity ==
    [][(last'.op \in {"handle_frag", "receive"} /\ last'.ret.is_some) =>
          last'.ret.val = Concat(tx_pieces')
      ]_vars

\* of the first frame, of two parts, the second part was lost; of the second
\* frame, of two parts, the first part was lost; the reassembler has
\* reported the first part of the first frame and the second part of the
\* second frame as one frame
C34_Witness ==
    /\ last.op = "handle_frag"
    /\ tx_count = 2
    /\ tx_pieces = Split(Frame(2, 2), <<1, 1>>)
    /\ tx_got = {1}
    /\ last.ret = Some(SubSeq(Frame(1, 2), 1, 1) \o SubSeq(Frame(2, 2), 2, 2))

\* with no loss, the second frame is reported as it was sent
C34_WitnessWhole ==
    /\ last.op = "handle_frag"
    /\ tx_count = 2
    /\ tx_got = {0, 1, 2}
    /\ last.ret = Some(Frame(2, 3))

(***************************************************************************)
(* Properties of last_seen under the bridge's dispatch                     *)
(***************************************************************************)
\* C35: a step of the dispatch changes a slot only by creating it, for an
\* Initialize on pipe 0 whose serial the table did not hold, or by setting
\* last_seen of the slot of pipe n to the clock, for a Keepalive on pipe n
\* with the slot's serial; a Proxy or a Nop on any pipe, and an Initialize
\* whose serial the table holds already, leave the whole table as it was.
C35_LivenessTouch ==
    [][/\ \A i \in Slots :
            addr_allocs'[i] # addr_allocs[i] =>
              /\ last'.op = "rx"
              /\ last'.msg.type \in {"Initialize", "Keepalive"}
              /\ addr_allocs'[i] = Some(Element(last'.msg.serial, now))
              /\ \/ /\ last'.msg.type = "Initialize"
                    /\ last'.pipe = 0
                    /\ ~addr_allocs[i].is_some
                    /\ Holders(addr_allocs, last'.msg.serial) = {}
                 \/ /\ last'.msg.type = "Keepalive"
                    /\ last'.pipe = i + 1
                    /\ addr_allocs[i].is_some
                    /\ addr_allocs[i].val.serial = last'.msg.serial
       /\ (last'.op = "rx" /\ last'.msg.type \in {"Proxy", "Nop"}) =>
            addr_allocs' = addr_allocs
       /\ (/\ last'.op = "rx"
           /\ last'.msg.type = "Initialize"
           /\ Holders(addr_allocs, last'.msg.serial) # {}) =>
            addr_allocs' = addr_allocs
      ]_vars

\* a second after node 0 attached, a whole frame has come in on its pipe and
\* been published, and last_seen of its slot is still the second it attached
C35_Witness ==
    /\ last.op = "rx"
    /\ last.pipe = 1
    /\ last.msg.type = "Proxy"
    /\ last.publish.is_some
    /\ now = 1
    /\ addr_allocs[0] = Some(Element(0, 0))

\* a second after node 0 attached, its Initialize has come in again and been
\* acknowledged, and last_seen of its slot is still the second it attached
C35_WitnessAgain ==
    /\ last.op = "rx"
    /\ last.pipe = 0
    /\ last.msg = N2B_Initialize(0)
    /\ last.reply = Some([pipe |-> 0, pid |-> 0, msg |-> B2N_InitializeAck(0, 1)])
    /\ now = 1
    /\ addr_allocs[0] = Some(Element(0, 0))

\* a Keepalive of node 0 on its pipe has set last_seen of its slot
C35_WitnessKeepalive ==
    /\ last.op = "rx"
    /\ last.pipe = 1
    /\ last.msg = N2B_Keepalive(0)
    /\ now = 1
    /\ addr_allocs[0] = Some(Element(0, 1))

(***************************************************************************)
(* Properties of a node that stays alive                                   *)
(***************************************************************************)
\* C36: once the node has attached, with its keepalive task running and
\* every Keepalive heard by the bridge, its slot is there at every table
\* tick with now - last_seen < 30 s and is there after the tick; the table
\* holds the node's serial on the node's pipe all the time, and no reply to
\* the node is a Reset: the node stays in steady state.
C36_LiveNodeKept ==
    /\ [](n_pc = "steady" =>
            /\ esb_rx.is_some
            /\ Holders(addr_allocs, NodeSerial) = {esb_rx.val.pipe - 1})
    /\ [][/\ (last'.op = "table_tick" /\ n_pc = "steady") =>
               /\ now - addr_allocs[esb_rx.val.pipe - 1].val.last_msg < 30
               /\ addr_allocs'[esb_rx.val.pipe - 1] = addr_allocs[esb_rx.val.pipe - 1]
               /\ NodeSerial \in Listed(last'.tout)
          /\ last'.op = "tick" =>
               /\ last'.reply # Some(B2N_Reset)
               /\ n_pc' = "steady"
               /\ esb_rx' = esb_rx
         ]_vars

\* the tick at 35 s, more than 30 s after the node attached, has found the
\* slot refreshed within the last 4 s and has kept it
C36_Witness ==
    /\ last.op = "table_tick"
    /\ now = 35
    /\ n_pc = "steady"
    /\ n_now >= 30000
    /\ addr_allocs[0].is_some
    /\ addr_allocs[0].val.serial = NodeSerial
    /\ now - addr_allocs[0].val.last_msg <= 4

\* a Keepalive, sent 3.1 s after the one before, has been answered with a
\* Keepalive
C36_WitnessKeepalive ==
    /\ last.op = "tick"
    /\ last.msg = N2B_Keepalive(NodeSerial)
    /\ last.reply = Some(B2N_Keepalive(NodeSerial))
    /\ last.at = 6100

(***************************************************************************)
(* Properties of the node's sending side                                   *)
(***************************************************************************)
\* the Proxy packet goes on the frame of the Proxy packet before it, or
\* starts a frame after a frame that is complete
Continues(prev, pkt) ==
    IF pkt.part = 0
    THEN ~prev.is_some \/ prev.val.part + 1 = prev.val.ttl_parts
    ELSE /\ prev.is_some
         /\ prev.val.task = pkt.task
         /\ prev.val.part + 1 = pkt.part
         /\ prev.val.ttl_parts = pkt.ttl_parts

\* the Proxy packets of pkts, after prev, are whole frames of one task each
RECURSIVE Contiguous(_, _)
Contiguous(prev, pkts) ==
    IF pkts = << >> THEN TRUE
    ELSE IF Head(pkts).kind # "Proxy" THEN Contiguous(prev, Tail(pkts))
    ELSE Continues(prev, Head(pkts)) /\ Contiguous(Some(Head(pkts)), Tail(pkts))

\* C37: when tasks of one node send frames at the same time through clones
\* of one EsbTx, the Proxy packets committed to the radio form whole frames:
\* part i > 0 of a frame follows part i - 1 of the same task's frame with no
\* Proxy packet of another frame between them, and part 0 follows a frame
\* that is complete.
C37_NoInterleaving ==
    [][last'.op \in {"send", "resume"} => Contiguous(last'.air, last'.sent)]_vars

\* the RPC task, suspended in wait_grant_packet before the second of its
\* three chunks while the spawned task and the keepalive task waited for the
\* mutex, has committed that chunk and is suspended before the third; the
\* other two are still waiting
C37_Witness ==
    /\ last.op = "resume"
    /\ last.task = "rpc"
    /\ last.sent = <<TxPacket("rpc", 1, 3)>>
    /\ n_tx.task["rpc"].pc = "grant_wait"
    /\ n_tx.task["spawned"] = [pc |-> "lock_wait", i |-> 0, n |-> 2]
    /\ n_tx.task["keepalive"].pc = "lock_wait"

\* the spawned task has sent its frame of two chunks after the frame of the
\* RPC task
C37_WitnessNext ==
    /\ last.op \in {"send", "resume"}
    /\ last.task = "spawned"
    /\ last.air = Some(TxPacket("rpc", 2, 3))
    /\ n_tx.air = Some(TxPacket("spawned", 0, 2))
(***************************************************************************)
(* Properties of a host request while the table changes                    *)
(***************************************************************************)

\* C38: every B2N Proxy fragment committed for a host request addressed to
\* serial s goes to a pipe that the table, at the moment of the commit,
\* still allocates to s, whatever the table task did since the lookup
C38_PipeStillOwned ==
    [][last'.op = "host_commit"
       => serial_for_pipe(addr_allocs', last'.pipe) = Some(last'.serial)]_vars

\* a later fragment of a request for serial 0 is committed on the pipe
\* looked up, after a tick culled serial 0 and the pipe went to serial 1,
\* whose InitializeAck still waits for the radio sender
C38_Witness ==
    /\ last.op = "host_commit"
    /\ last.serial = 0
    /\ last.msg.part = 1
    /\ serial_for_pipe(addr_allocs, last.pipe) = Some(1)
    /\ b_task.pc = "sender_wait"
    /\ b_task.reply = B2N_InitializeAck(1, last.pipe)

\* the first fragment is committed after the grant was awaited, the pipe
\* already culled and free
C38_WitnessCulled ==
    /\ last.op = "host_commit"
    /\ last.serial = 0
    /\ last.msg.part = 0
    /\ serial_for_pipe(addr_allocs, last.pipe) = None

\* the ordinary case: the fragment goes to the pipe of its serial
C38_WitnessOwned ==
    /\ last.op = "host_commit"
    /\ last.msg.part = 1
    /\ serial_for_pipe(addr_allocs, last.pipe) = Some(last.serial)
(***************************************************************************)
(* Properties of the replies read on a pipe that changed owner             *)
(***************************************************************************)

\* C39: a node whose serial holds pipe p in the table, and which sends only
\* Keepalive of its own serial, Nop and Proxy on p, never reads a Reset on
\* p, also not one the bridge queued in reply to a packet of another node
C39_NoResetForOwner ==
    [][(last'.op = "node_rx" /\ last'.held = Some(last'.node))
       => last'.pkt.msg.type # "Reset"]_vars

\* node 0 was culled unheard and still sends on pipe 1, which is now held
\* by serial 1: the Reset that answers node 0's Keepalive is read by node 1
C39_Witness ==
    /\ last.op = "node_rx"
    /\ last.node = 1
    /\ last.held = Some(1)
    /\ last.pkt = [pipe |-> 1, kind |-> "msg", msg |-> B2N_Reset]
    /\ last.to = 0
    /\ last.sent = N2B_Keepalive(0)
    /\ nodes[1].pipe = None
    /\ nodes[0].pipe = Some(1)

\* the same Reset read by the node it was meant for
C39_WitnessStale ==
    /\ last.op = "node_rx"
    /\ last.node = 0
    /\ last.held = Some(1)
    /\ last.pkt.msg = B2N_Reset
    /\ last.to = 0
    /\ nodes[0].pipe = None
(***************************************************************************)
(* Properties of the attach loop                                           *)
(***************************************************************************)
\* the node is in get_pipe, about to send an Initialize or waiting for the
\* reply to one
InAttach == n_pc \in {"get_pipe", "wait_ack"}
\* the table has an empty slot or holds the node's serial
CanAdmit ==
    \/ \E i \in Slots : ~addr_allocs[i].is_some
    \/ Holds(addr_allocs, NodeSerial)
\* the node has just sent an Initialize on pipe 0
Retried ==
    /\ last.op = "node_tx"
    /\ last.pkt = [pipe |-> 0, msg |-> N2B_Initialize(NodeSerial)]

\* C40: with the bridge running and packets delivered, a node in the attach
\* loop eventually reaches steady state, unless the other serials fill the
\* table: then it eventually sends its Initialize again, and while they fill
\* the table no step takes the node to steady state
C40_AttachTerminates ==
    /\ InAttach ~> (n_pc = "steady" \/ (~CanAdmit /\ Retried))
    /\ [][(InAttach /\ ~CanAdmit) => n_pc' # "steady"]_vars

\* the node has read the InitializeAck for its serial and is in steady state
\* on the pipe named in it, the last slot that was free
C40_Witness ==
    /\ last.op = "node_rx"
    /\ last.pc = "wait_ack"
    /\ last.pkt.msg.type = "InitializeAck"
    /\ last.pkt.msg.serial = NodeSerial
    /\ n_pc = "steady"
    /\ esb_rx = Some([serial |-> NodeSerial, pipe |-> last.pkt.msg.use_pipe])
    /\ Holds(addr_allocs, NodeSerial)
    /\ \A i \in Slots : addr_allocs[i].is_some

\* the node has read the Reset of a table that the seven others fill, before
\* it was ever admitted, and is back at the head of the loop
C40_WitnessFull ==
    /\ last.op = "node_rx"
    /\ last.pc = "wait_ack"
    /\ last.pkt.msg = B2N_Reset
    /\ n_pc = "get_pipe"
    /\ ~CanAdmit
    /\ now = 0
====
